---- MODULE Spec2Model ----
(***************************************************************************)
(* DeepSeekClient (src/src/deepseek-client.ts): the chat-completion        *)
(* client of the DeepSeek MCP server.  A client call is modelled from the  *)
(* moment it is issued to the moment its promise settles:                  *)
(* createChatCompletion, createStreamingChatCompletion and testConnection, *)
(* together with the request normaliser, the non-streaming reducer, the    *)
(* stream accumulator and wrapError.                                       *)
(*                                                                         *)
(* Specifications.  Spec and SpecChat: one client call at a time.          *)
(* SpecBuild: buildRequestParams on its own.  SpecConcurrent: several      *)
(* client calls interleaved at their awaits.  SpecTool: one invocation of  *)
(* the deepseek_chat tool (tools/deepseek-chat.ts, cost.ts, schemas.ts),   *)
(* from its validation through the client call to the returned result.     *)
(*                                                                         *)
(* JavaScript values.  An optional value (undefined or null) is the empty  *)
(* sequence, a present value v is <<v>>.  Strings are TLA+ strings and     *)
(* += is \o.  A thrown value is a record whose "type" says what was        *)
(* thrown; an object's "site" is the place that allocated it, which stands *)
(* for its identity (every site runs at most once per call).               *)
(***************************************************************************)
EXTENDS Integers, Sequences, FiniteSets, TLC

\* ------------------------------------------------------------------ bounds
\* Longest event sequence a stream yields.
MaxChunks == 3
\* Largest tool-call delta index a stream uses (indices are 0..MaxIndex).
MaxIndex == 1
\* Client calls running at the same time, and the chunks each of their streams
\* yields.
MaxCalls == 2
MaxConcurrentChunks == 2

\* ------------------------------------------------- optional values, truthiness
Undefined == <<>>
Some(v) == <<v>>
IsDefined(o) == o # Undefined
\* A string-valued optional is truthy when it is present and not "".
Truthy(o) == o # Undefined /\ o[1] # ""
\* o || d  for a string-valued optional o.
OrElse(o, d) == IF Truthy(o) THEN o[1] ELSE d

\* --------------------------------------------------------------- error values
ApiErrorClasses == {"ApiError", "RateLimitError", "AuthenticationError"}

\* typeof v === 'string'
IsString(v) == v.type = "string"
\* v instanceof Error
IsError(v) == v.type = "object"
\* v instanceof ApiError
IsApiError(v) == v.type = "object" /\ v.class \in ApiErrorClasses

\* new Error(message), thrown by the transport.
TransportError(message) ==
  [type |-> "object", class |-> "Error", site |-> "transport",
   message |-> message, cause |-> Undefined]

\* new ApiError(message, options): statusCode and retryable from the options,
\* retryable false when not given.
ApiError(message, cause, statusCode, retryable, site) ==
  [type |-> "object", class |-> "ApiError", name |-> "ApiError", site |-> site,
   message |-> message, cause |-> cause,
   statusCode |-> statusCode,
   retryable |-> IF IsDefined(retryable) THEN retryable[1] ELSE FALSE]

\* The options object of an error constructor: each property may be absent.
ErrorOptions(cause, statusCode, retryable) ==
  [cause |-> cause, statusCode |-> statusCode, retryable |-> retryable]

\* options?.cause, options?.statusCode, options?.retryable of an options
\* argument that may itself be absent.
OptionOf(options, property) ==
  IF IsDefined(options) THEN options[1][property] ELSE Undefined

StatusTooManyRequests == 429
StatusUnauthorized == 401

\* new ApiError(message, options)
NewApiError(message, options) ==
  ApiError(message, OptionOf(options, "cause"), OptionOf(options, "statusCode"),
           OptionOf(options, "retryable"), "caller")

\* A RateLimitError that spreads the caller's options over its own.
RateLimitErrorOptionsLast(message, options) ==
  [ApiError(message, OptionOf(options, "cause"),
            IF IsDefined(OptionOf(options, "statusCode"))
            THEN OptionOf(options, "statusCode") ELSE Some(StatusTooManyRequests),
            IF IsDefined(OptionOf(options, "retryable"))
            THEN OptionOf(options, "retryable") ELSE Some(TRUE),
            "caller")
     EXCEPT !.class = "RateLimitError", !.name = "RateLimitError"]

\* new RateLimitError(message, options): the ApiError of
\* {...options, statusCode: 429, retryable: true}, named after its class.
RateLimitError(message, options) ==
  [ApiError(message, OptionOf(options, "cause"), Some(StatusTooManyRequests),
            Some(TRUE), "caller")
     EXCEPT !.class = "RateLimitError", !.name = "RateLimitError"]

\* new AuthenticationError(message, options)
AuthenticationError(message, options) ==
  [ApiError(message, OptionOf(options, "cause"), Some(StatusUnauthorized),
            Some(FALSE), "caller")
     EXCEPT !.class = "AuthenticationError", !.name = "AuthenticationError"]

\* new ConnectionError(message, options): retryable unless the options say
\* otherwise, and no status code.
ConnectionError(message, options) ==
  [type |-> "object", class |-> "ConnectionError", name |-> "ConnectionError",
   site |-> "caller", message |-> message,
   cause |-> OptionOf(options, "cause"),
   retryable |-> IF IsDefined(OptionOf(options, "retryable"))
                 THEN OptionOf(options, "retryable")[1] ELSE TRUE]

\* An error of the transport's own classes, with the HTTP status it carries.
SdkError(class, message, status) ==
  [type |-> "object", class |-> class, site |-> "transport",
   message |-> message, cause |-> Undefined, status |-> status]

getErrorMessage(error) ==
  IF IsError(error) THEN error.message
  ELSE IF IsString(error) THEN error.value
  ELSE "Unknown error"

\* wrapError that builds its ApiError without the cause option.
wrapErrorDroppingCause(error, context) ==
  IF IsApiError(error) THEN error
  ELSE ApiError(context \o ": " \o getErrorMessage(error),
                Undefined, Undefined, Undefined, "wrapError")

\* wrapError that rethrows every Error as it is, not only an ApiError.
wrapErrorRethrowingErrors(error, context) ==
  IF IsError(error) THEN error
  ELSE ApiError(context \o ": " \o getErrorMessage(error),
                Undefined, Undefined, Undefined, "wrapError")

\* wrapError without its first line: an ApiError is wrapped like any Error.
wrapErrorAlwaysWrapping(error, context) ==
  ApiError(context \o ": " \o getErrorMessage(error),
           IF IsError(error) THEN Some(error) ELSE Undefined,
           Undefined, Undefined, "wrapError")

\* A wrapError that classifies by the status of what the transport threw.
wrapErrorClassifying(error, context) ==
  IF IsApiError(error) THEN error
  ELSE IF IsError(error) /\ "status" \in DOMAIN error
          /\ error.status = Some(StatusTooManyRequests)
  THEN [RateLimitError(context \o ": " \o getErrorMessage(error),
                       Some(ErrorOptions(Some(error), Undefined, Undefined)))
          EXCEPT !.site = "wrapError"]
  ELSE ApiError(context \o ": " \o getErrorMessage(error),
                IF IsError(error) THEN Some(error) ELSE Undefined,
                Undefined, Undefined, "wrapError")

\* What the caller's promise rejects with when the catch block hands `error`
\* to wrapError.
wrapError(error, context) ==
  IF IsApiError(error) THEN error
  ELSE ApiError(context \o ": " \o getErrorMessage(error),
                IF IsError(error) THEN Some(error) ELSE Undefined,
                Undefined, Undefined, "wrapError")

ChatContext == "DeepSeek API Error"
StreamContext == "DeepSeek Streaming API Error"

\* Values the transport (the OpenAI SDK) can throw: an Error, and, since the
\* catch clause takes `unknown`, a string or any other value.
TransportThrows ==
  { TransportError("Stream connection lost"),
    [type |-> "string", value |-> "socket hang up"],
    [type |-> "other"] }

\* ------------------------------------------------------------ request params
Message(role, content) == [role |-> role, content |-> content]

ChatCompletionParams(model, messages, temperature, max_tokens, tools, tool_choice) ==
  [model |-> model, messages |-> messages, temperature |-> temperature,
   max_tokens |-> max_tokens, top_p |-> Undefined,
   frequency_penalty |-> Undefined, presence_penalty |-> Undefined,
   stop |-> Undefined, tools |-> tools, tool_choice |-> tool_choice]

\* Temperatures are in tenths: 10 is 1.0.
DefaultTemperature == 10

WeatherTool ==
  [type |-> "function", function |-> [name |-> "get_weather"]]

\* The params of the probe testConnection sends.
TestConnectionParams ==
  ChatCompletionParams("deepseek-chat", <<Message("user", "Hi")>>,
                       Undefined, Some(10), Undefined, Undefined)

TimeTool ==
  [type |-> "function", function |-> [name |-> "get_time"]]

\* The params buildRequestParams is applied to on its own: every combination
\* of an absent, empty or non-empty tools list with an absent or provided
\* tool_choice.
BuildParamsSet ==
  { ChatCompletionParams(m, <<Message("user", "Hi")>>, t, mt, tl, tc) :
      m \in {"deepseek-chat", "deepseek-reasoner"},
      t \in {Undefined, Some(0), Some(7)},
      mt \in {Undefined, Some(10)},
      tl \in {Undefined, Some(<<>>), Some(<<WeatherTool>>),
              Some(<<WeatherTool, TimeTool>>)},
      tc \in {Undefined, Some("auto"), Some("none"), Some("required")} }
  \cup { [ChatCompletionParams("deepseek-chat", <<Message("user", "Hi")>>, t,
                               Some(10), Undefined, Undefined)
            EXCEPT !.top_p = Some(9), !.frequency_penalty = Some(5),
                   !.presence_penalty = Some(0 - 5), !.stop = Some(<<"END">>)] :
          t \in {Undefined, Some(0), Some(7)} }

ParamsSet ==
  { TestConnectionParams,
    ChatCompletionParams("deepseek-reasoner", <<Message("user", "Weather?")>>,
                         Some(0), Undefined, Some(<<WeatherTool>>), Some("auto")) }

\* buildRequestParams with `if (params.tools)` for the tools guard: an empty
\* list is sent too.
buildRequestParamsKeepingEmptyTools(params, stream) ==
  [model |-> params.model,
   messages |-> params.messages,
   temperature |-> IF IsDefined(params.temperature)
                   THEN params.temperature
                   ELSE Some(DefaultTemperature),
   max_tokens |-> params.max_tokens,
   top_p |-> params.top_p,
   frequency_penalty |-> params.frequency_penalty,
   presence_penalty |-> params.presence_penalty,
   stop |-> params.stop,
   stream |-> stream,
   tools |-> params.tools,
   tool_choice |-> params.tool_choice]

\* A buildRequestParams that defaults the temperature with || instead of ??.
buildRequestParamsDefaultingFalsy(params, stream) ==
  [model |-> params.model,
   messages |-> params.messages,
   temperature |-> IF IsDefined(params.temperature) /\ params.temperature[1] # 0
                   THEN params.temperature
                   ELSE Some(DefaultTemperature),
   max_tokens |-> params.max_tokens,
   top_p |-> params.top_p,
   frequency_penalty |-> params.frequency_penalty,
   presence_penalty |-> params.presence_penalty,
   stop |-> params.stop,
   stream |-> stream,
   tools |-> IF IsDefined(params.tools) /\ Len(params.tools[1]) > 0
             THEN params.tools ELSE Undefined,
   tool_choice |-> params.tool_choice]

buildRequestParams(params, stream) ==
  LET requestParams ==
        [model |-> params.model,
         messages |-> params.messages,
         temperature |-> IF IsDefined(params.temperature)
                         THEN params.temperature
                         ELSE Some(DefaultTemperature),
         max_tokens |-> params.max_tokens,
         top_p |-> params.top_p,
         frequency_penalty |-> params.frequency_penalty,
         presence_penalty |-> params.presence_penalty,
         stop |-> params.stop,
         stream |-> stream,
         tools |-> IF IsDefined(params.tools) /\ Len(params.tools[1]) > 0
                   THEN params.tools ELSE Undefined,
         tool_choice |-> params.tool_choice]
  IN requestParams

\* ------------------------------------------------------------- stream chunks
Usage(p, c, t) ==
  [prompt_tokens |-> p, completion_tokens |-> c, total_tokens |-> t]

ZeroUsage == Usage(0, 0, 0)

ToolCallDelta(index, id, function) ==
  [index |-> index, id |-> id, function |-> function]

FunctionDelta(name, arguments) == [name |-> name, arguments |-> arguments]

Delta(content, reasoning_content, tool_calls) ==
  [content |-> content, reasoning_content |-> reasoning_content,
   tool_calls |-> tool_calls]

StreamChoice(delta, finish_reason) ==
  [delta |-> delta, finish_reason |-> finish_reason]

StreamChunk(choices, model, usage) ==
  [choices |-> choices, model |-> model, usage |-> usage]

\* A chunk with one choice and neither model nor usage.
DeltaChunk(delta) ==
  StreamChunk(<<StreamChoice(delta, Undefined)>>, Undefined, Undefined)

\* The tool-call deltas a stream may carry for index i: an opening delta with
\* an id, a continuation without one, and a delta with another id and an
\* empty arguments fragment.
ToolDeltasFor(i) ==
  { ToolCallDelta(i, Some("call_A"), Some(FunctionDelta(Some("get_"), Some("{")))),
    ToolCallDelta(i, Undefined, Some(FunctionDelta(Some("weather"), Some("x}")))),
    ToolCallDelta(i, Some("call_B"), Some(FunctionDelta(Undefined, Some("")))) }

RECURSIVE DescendingOpeners(_)
\* One opening delta per index, highest index first, the last without function.
DescendingOpeners(i) ==
  IF i = 0
  THEN <<ToolCallDelta(0, Undefined, Undefined)>>
  ELSE <<ToolCallDelta(i, Some("call_A"),
                       Some(FunctionDelta(Some("get_"), Some("{"))))>>
       \o DescendingOpeners(i - 1)

ToolChunks ==
  { DeltaChunk(Delta(Undefined, Undefined, Some(<<d>>))) :
      d \in UNION { ToolDeltasFor(i) : i \in 0..MaxIndex } }
  \cup { DeltaChunk(Delta(Undefined, Undefined, Some(DescendingOpeners(MaxIndex)))) }

\* Content and reasoning fragments; the first with an empty tool_calls list,
\* the second with a finish reason and a usage block.
TextChunks ==
  { DeltaChunk(Delta(Some("Hello"), Some("I "), Some(<<>>))),
    StreamChunk(<<StreamChoice(Delta(Some(" world"), Some("think"), Undefined),
                               Some("length"))>>,
                Undefined, Some(Usage(7, 2, 11))) }

\* A terminal chunk with finish reason, model and usage, and a chunk whose
\* strings are all empty.
MetaChunks ==
  { StreamChunk(<<StreamChoice(Delta(Undefined, Undefined, Undefined),
                               Some("tool_calls"))>>,
                Some("deepseek-reasoner"), Some(Usage(5, 3, 8))),
    StreamChunk(<<StreamChoice(Delta(Some(""), Some(""), Undefined), Some(""))>>,
                Some(""), Undefined) }

\* A chunk without choice that carries a model name and a usage block.
EmptyChoiceChunks ==
  { StreamChunk(<<>>, Some("deepseek-v3"), Some(Usage(4, 1, 6))) }

Chunks == ToolChunks \cup TextChunks \cup MetaChunks \cup EmptyChoiceChunks

\* -------------------------------------------------------- stream accumulator
\* The local variables createStreamingChatCompletion declares before its loop.
\* toolCallsMap is a JavaScript Map: its entries in insertion order.
InitialLocals(params) ==
  [fullContent |-> "",
   reasoningContent |-> "",
   modelName |-> params.model,
   finishReason |-> "stop",
   usage |-> ZeroUsage,
   toolCallsMap |-> <<>>]

\* typeof message.reasoning_content === 'string'
hasReasoningContent(message) == IsDefined(message.reasoning_content)

MapHas(map, key) == \E j \in 1..Len(map) : map[j].key = key
MapPosition(map, key) == CHOOSE j \in 1..Len(map) : map[j].key = key

\* tc.function?.name and tc.function?.arguments
DeltaName(tc) ==
  IF IsDefined(tc.function) THEN tc.function[1].name ELSE Undefined
DeltaArguments(tc) ==
  IF IsDefined(tc.function) THEN tc.function[1].arguments ELSE Undefined

\* accumulateToolCall with = in place of += on the fragments of a known index.
accumulateToolCallReplacing(map, tc) ==
  IF MapHas(map, tc.index)
  THEN LET j == MapPosition(map, tc.index)
           existing == map[j].value
       IN [map EXCEPT ![j].value.function =
             [name |-> IF Truthy(DeltaName(tc))
                       THEN DeltaName(tc)[1] ELSE existing.function.name,
              arguments |-> IF Truthy(DeltaArguments(tc))
                            THEN DeltaArguments(tc)[1]
                            ELSE existing.function.arguments]]
  ELSE Append(map,
              [key |-> tc.index,
               value |-> [id |-> OrElse(tc.id, ""),
                          type |-> "function",
                          function |-> [name |-> OrElse(DeltaName(tc), ""),
                                        arguments |-> OrElse(DeltaArguments(tc), "")]]])

\* accumulateToolCall that also takes the id of a later delta that carries one.
accumulateToolCallTakingLaterId(map, tc) ==
  IF MapHas(map, tc.index)
  THEN LET j == MapPosition(map, tc.index)
           existing == map[j].value
       IN [map EXCEPT ![j].value =
             [id |-> OrElse(tc.id, existing.id),
              type |-> "function",
              function |->
                [name |-> IF Truthy(DeltaName(tc))
                          THEN existing.function.name \o DeltaName(tc)[1]
                          ELSE existing.function.name,
                 arguments |-> IF Truthy(DeltaArguments(tc))
                               THEN existing.function.arguments \o DeltaArguments(tc)[1]
                               ELSE existing.function.arguments]]]
  ELSE Append(map,
              [key |-> tc.index,
               value |-> [id |-> OrElse(tc.id, ""),
                          type |-> "function",
                          function |-> [name |-> OrElse(DeltaName(tc), ""),
                                        arguments |-> OrElse(DeltaArguments(tc), "")]]])

\* The body of the loop over choice.delta.tool_calls, for one delta.
accumulateToolCall(map, tc) ==
  IF MapHas(map, tc.index)
  THEN LET j == MapPosition(map, tc.index)
           existing == map[j].value
           name == IF Truthy(DeltaName(tc))
                   THEN existing.function.name \o DeltaName(tc)[1]
                   ELSE existing.function.name
           arguments == IF Truthy(DeltaArguments(tc))
                        THEN existing.function.arguments \o DeltaArguments(tc)[1]
                        ELSE existing.function.arguments
       IN [map EXCEPT ![j].value.function =
                        [name |-> name, arguments |-> arguments]]
  ELSE Append(map,
              [key |-> tc.index,
               value |-> [id |-> OrElse(tc.id, ""),
                          type |-> "function",
                          function |-> [name |-> OrElse(DeltaName(tc), ""),
                                        arguments |-> OrElse(DeltaArguments(tc), "")]]])

RECURSIVE accumulateToolCalls(_, _)
\* for (const tc of choice.delta.tool_calls) ...
accumulateToolCalls(map, tcs) ==
  IF tcs = <<>> THEN map
  ELSE accumulateToolCalls(accumulateToolCall(map, Head(tcs)), Tail(tcs))

\* The loop body with the model name and the usage read before the choice is
\* looked at, so that an event without choice still sets them.
foldChunkMetaBeforeChoice(l, chunk) ==
  LET m == [l EXCEPT
              !.modelName = IF Truthy(chunk.model) THEN chunk.model[1] ELSE @,
              !.usage = IF IsDefined(chunk.usage) THEN chunk.usage[1] ELSE @]
  IN IF Len(chunk.choices) = 0
     THEN m
     ELSE LET choice == chunk.choices[1]
              delta == choice.delta
          IN [m EXCEPT
                !.fullContent =
                  IF Truthy(delta.content) THEN @ \o delta.content[1] ELSE @,
                !.reasoningContent =
                  IF hasReasoningContent(delta)
                  THEN @ \o delta.reasoning_content[1] ELSE @,
                !.toolCallsMap =
                  IF IsDefined(delta.tool_calls)
                  THEN accumulateToolCalls(@, delta.tool_calls[1]) ELSE @,
                !.finishReason =
                  IF Truthy(choice.finish_reason)
                  THEN choice.finish_reason[1] ELSE @]

\* A loop body that assigns the content and reasoning fragments (=) instead
\* of appending them (+=).
foldChunkAssigningText(l, chunk) ==
  IF Len(chunk.choices) = 0
  THEN l
  ELSE LET choice == chunk.choices[1]
           delta == choice.delta
       IN [fullContent |->
             IF Truthy(delta.content)
             THEN delta.content[1] ELSE l.fullContent,
           reasoningContent |->
             IF hasReasoningContent(delta)
             THEN delta.reasoning_content[1]
             ELSE l.reasoningContent,
           toolCallsMap |->
             IF IsDefined(delta.tool_calls)
             THEN accumulateToolCalls(l.toolCallsMap, delta.tool_calls[1])
             ELSE l.toolCallsMap,
           finishReason |->
             IF Truthy(choice.finish_reason)
             THEN choice.finish_reason[1] ELSE l.finishReason,
           modelName |->
             IF Truthy(chunk.model) THEN chunk.model[1] ELSE l.modelName,
           usage |->
             IF IsDefined(chunk.usage) THEN chunk.usage[1] ELSE l.usage]

\* A loop body that takes every finish_reason that is present
\* (`!== undefined`), the empty string included.
foldChunkTakingEmptyFinishReason(l, chunk) ==
  IF Len(chunk.choices) = 0
  THEN l
  ELSE LET choice == chunk.choices[1]
           delta == choice.delta
       IN [fullContent |->
             IF Truthy(delta.content)
             THEN l.fullContent \o delta.content[1] ELSE l.fullContent,
           reasoningContent |->
             IF hasReasoningContent(delta)
             THEN l.reasoningContent \o delta.reasoning_content[1]
             ELSE l.reasoningContent,
           toolCallsMap |->
             IF IsDefined(delta.tool_calls)
             THEN accumulateToolCalls(l.toolCallsMap, delta.tool_calls[1])
             ELSE l.toolCallsMap,
           finishReason |->
             IF IsDefined(choice.finish_reason)
             THEN choice.finish_reason[1] ELSE l.finishReason,
           modelName |->
             IF Truthy(chunk.model) THEN chunk.model[1] ELSE l.modelName,
           usage |->
             IF IsDefined(chunk.usage) THEN chunk.usage[1] ELSE l.usage]

\* One iteration of the for-await loop.
foldChunk(l, chunk) ==
  IF Len(chunk.choices) = 0
  THEN l
  ELSE LET choice == chunk.choices[1]
           delta == choice.delta
       IN [fullContent |->
             IF Truthy(delta.content)
             THEN l.fullContent \o delta.content[1] ELSE l.fullContent,
           reasoningContent |->
             IF hasReasoningContent(delta)
             THEN l.reasoningContent \o delta.reasoning_content[1]
             ELSE l.reasoningContent,
           toolCallsMap |->
             IF IsDefined(delta.tool_calls)
             THEN accumulateToolCalls(l.toolCallsMap, delta.tool_calls[1])
             ELSE l.toolCallsMap,
           finishReason |->
             IF Truthy(choice.finish_reason)
             THEN choice.finish_reason[1] ELSE l.finishReason,
           modelName |->
             IF Truthy(chunk.model) THEN chunk.model[1] ELSE l.modelName,
           usage |->
             IF IsDefined(chunk.usage) THEN chunk.usage[1] ELSE l.usage]

RECURSIVE InsertByKey(_, _)
\* Puts entry e after the entries of the sorted list whose key is not larger.
InsertByKey(e, sorted) ==
  IF sorted = <<>> THEN <<e>>
  ELSE IF e.key - Head(sorted).key < 0 THEN <<e>> \o sorted
  ELSE <<Head(sorted)>> \o InsertByKey(e, Tail(sorted))

RECURSIVE SortByKey(_)
\* entries.sort(([a], [b]) => a - b): a stable sort by ascending key.
SortByKey(entries) ==
  IF entries = <<>> THEN <<>>
  ELSE InsertByKey(entries[Len(entries)], SortByKey(SubSeq(entries, 1, Len(entries) - 1)))

\* sortedToolCalls without the sort: the Map's insertion order.
sortedToolCallsUnsorted(map) ==
  IF Len(map) > 0
  THEN Some([j \in 1..Len(map) |-> map[j].value])
  ELSE Undefined

\* tool_calls built from the map whether or not it has entries.
sortedToolCallsOfAnyMap(map) ==
  LET sorted == SortByKey(map)
  IN Some([j \in 1..Len(sorted) |-> sorted[j].value])

\* The tool_calls of the streaming result.
sortedToolCalls(map) ==
  IF Len(map) > 0
  THEN LET sorted == SortByKey(map)
       IN Some([j \in 1..Len(sorted) |-> sorted[j].value])
  ELSE Undefined

\* The object createStreamingChatCompletion returns after the loop.
streamResponse(l) ==
  [content |-> l.fullContent,
   reasoning_content |-> IF l.reasoningContent # ""
                         THEN Some(l.reasoningContent) ELSE Undefined,
   model |-> l.modelName,
   usage |-> l.usage,
   finish_reason |-> l.finishReason,
   tool_calls |-> sortedToolCalls(l.toolCallsMap)]

\* ------------------------------------------------------ non-streaming reducer
UpstreamToolCall(id, type, name, arguments) ==
  [id |-> id, type |-> type,
   function |-> [name |-> name, arguments |-> arguments]]

RawMessage(content, reasoning_content, tool_calls) ==
  [content |-> content, reasoning_content |-> reasoning_content,
   tool_calls |-> tool_calls]

RawChoice(message, finish_reason) ==
  [message |-> message, finish_reason |-> finish_reason]

RawResponse(choices, model, usage) ==
  [choices |-> choices, model |-> model, usage |-> usage]

RawToolCallLists ==
  { Undefined,
    Some(<<>>),
    Some(<<UpstreamToolCall("call_1", "function", "get_weather", "{}")>>),
    Some(<<UpstreamToolCall("call_2", "custom", "get_time", "{}"),
           UpstreamToolCall("call_1", "function", "get_weather", "{}")>>) }

RawUsages == { Undefined, Some(Usage(5, 2, 7)), Some(Usage(4, 1, 6)) }

\* The responses the transport may resolve a non-streaming request with.
RawResponses ==
  { RawResponse(<<RawChoice(RawMessage(c, r, t), f)>>, "deepseek-chat", u) :
      c \in {Undefined, Some(""), Some("Hi!")},
      r \in {Undefined, Some(""), Some("because")},
      t \in RawToolCallLists,
      f \in {Undefined, Some("length")},
      u \in RawUsages }
  \cup { RawResponse(<<RawChoice(RawMessage(c, Undefined, Undefined), Undefined),
                       RawChoice(RawMessage(Some("Second"), Some("aside"),
                                            Some(<<UpstreamToolCall("call_9", "function", "get_time", "{}")>>)),
                                 Some("tool_calls"))>>,
                     "deepseek-chat", Some(Usage(5, 2, 7))) :
          c \in {Undefined, Some("First")} }
  \cup { RawResponse(<<>>, "deepseek-chat", u) : u \in RawUsages }

\* A map that copies the upstream type instead of writing 'function'.
mapToolCallsCopyingType(tool_calls) ==
  IF IsDefined(tool_calls)
  THEN Some([j \in 1..Len(tool_calls[1]) |->
               [id |-> tool_calls[1][j].id,
                type |-> tool_calls[1][j].type,
                function |-> [name |-> tool_calls[1][j].function.name,
                              arguments |-> tool_calls[1][j].function.arguments]]])
  ELSE Undefined

\* choice.message.tool_calls?.map(...)
mapToolCalls(tool_calls) ==
  IF IsDefined(tool_calls)
  THEN Some([j \in 1..Len(tool_calls[1]) |->
               [id |-> tool_calls[1][j].id,
                type |-> "function",
                function |-> [name |-> tool_calls[1][j].function.name,
                              arguments |-> tool_calls[1][j].function.arguments]]])
  ELSE Undefined

\* The last of the choices.
LastChoice(response) == response.choices[Len(response.choices)]

\* response.choices[0]
FirstChoice(response) == response.choices[1]

\* x || 0 for an optional usage block and one of its counts.
CountOrZero(usage, field) ==
  IF IsDefined(usage) THEN usage[1][field] ELSE 0

\* The try block of createChatCompletion after the transport has resolved with
\* `response`: what it returns, or what it throws.
reduceResponse(response) ==
  IF Len(response.choices) = 0
  THEN [threw |-> TRUE,
        error |-> ApiError("No response from DeepSeek API", Undefined,
                           Undefined, Undefined, "createChatCompletion")]
  ELSE LET choice == FirstChoice(response)
           reasoning_content ==
             IF hasReasoningContent(choice.message)
             THEN choice.message.reasoning_content ELSE Undefined
           tool_calls == mapToolCalls(choice.message.tool_calls)
       IN [threw |-> FALSE,
           value |->
             [content |-> OrElse(choice.message.content, ""),
              reasoning_content |-> reasoning_content,
              model |-> response.model,
              usage |-> Usage(CountOrZero(response.usage, "prompt_tokens"),
                              CountOrZero(response.usage, "completion_tokens"),
                              CountOrZero(response.usage, "total_tokens")),
              finish_reason |-> OrElse(choice.finish_reason, "stop"),
              tool_calls |-> IF IsDefined(tool_calls) /\ Len(tool_calls[1]) > 0
                             THEN tool_calls ELSE Undefined]]

\* testConnection without its catch block.
testConnectionOutcomeUncaught(settled, response, error) ==
  IF settled = "resolved"
  THEN [state |-> "resolved", value |-> (response[1].content # "")]
  ELSE [state |-> "rejected", value |-> error[1]]

\* What testConnection's promise settles with, given how its
\* createChatCompletion call settled: !!response.content, or false from the
\* catch block.
testConnectionOutcome(settled, response, error) ==
  IF settled = "resolved"
  THEN [state |-> "resolved", value |-> (response[1].content # "")]
  ELSE [state |-> "resolved", value |-> FALSE]

\* -------------------------------------------------------------- configuration
\* The configuration loadConfig produces from an environment that sets only the
\* API key.
DefaultMaxMessageLength == 100000

Config(showCostInfo, maxMessageLength) ==
  [showCostInfo |-> showCostInfo, maxMessageLength |-> maxMessageLength]

DefaultConfig == Config(TRUE, DefaultMaxMessageLength)

\* process.env: the variables loadConfig reads, each absent or a string.
Env(key, baseUrl, showCostInfo, requestTimeout, maxRetries, skip, maxMessageLength) ==
  [DEEPSEEK_API_KEY |-> key, DEEPSEEK_BASE_URL |-> baseUrl,
   SHOW_COST_INFO |-> showCostInfo, REQUEST_TIMEOUT |-> requestTimeout,
   MAX_RETRIES |-> maxRetries, SKIP_CONNECTION_TEST |-> skip,
   MAX_MESSAGE_LENGTH |-> maxMessageLength]

EmptyEnv ==
  Env(Undefined, Undefined, Undefined, Undefined, Undefined, Undefined, Undefined)

\* The loadConfig calls followed.
MaxLoads == 3

Digits == "0123456789"
IsDigit(ch) == \E d \in 0..9 : SubSeq(Digits, d + 1, d + 1) = ch
DigitValue(ch) == CHOOSE d \in 0..9 : SubSeq(Digits, d + 1, d + 1) = ch

\* A number that is not one.
NaN == <<>>

RECURSIVE DigitsValue(_, _, _)
\* The value of the digits of s from position i on, up to the first character
\* that is no digit, continuing the value acc.
DigitsValue(s, i, acc) ==
  IF i > Len(s) \/ ~IsDigit(SubSeq(s, i, i)) THEN acc
  ELSE DigitsValue(s, i + 1, acc * 10 + DigitValue(SubSeq(s, i, i)))

\* parseInt(s, 10) of a string without leading white space: a sign, then the
\* longest run of digits; NaN when there is no digit.
parseInt(s) ==
  LET signed == Len(s) > 0 /\ SubSeq(s, 1, 1) \in {"-", "+"}
      start == IF signed THEN 2 ELSE 1
  IN IF start > Len(s) \/ ~IsDigit(SubSeq(s, start, start)) THEN NaN
     ELSE IF signed /\ SubSeq(s, 1, 1) = "-"
     THEN Some(0 - DigitsValue(s, start, 0))
     ELSE Some(DigitsValue(s, start, 0))

DefaultBaseUrl == "https://api.deepseek.com"
DefaultRequestTimeout == 60000
DefaultMaxRetries == 2
MaxMaxRetries == 10

\* The object loadConfig reads from the environment.
rawConfig(e) ==
  [apiKey |-> OrElse(e.DEEPSEEK_API_KEY, ""),
   baseUrl |-> OrElse(e.DEEPSEEK_BASE_URL, DefaultBaseUrl),
   showCostInfo |-> e.SHOW_COST_INFO # Some("false"),
   requestTimeout |-> IF Truthy(e.REQUEST_TIMEOUT)
                      THEN parseInt(e.REQUEST_TIMEOUT[1])
                      ELSE Some(DefaultRequestTimeout),
   maxRetries |-> IF Truthy(e.MAX_RETRIES)
                  THEN parseInt(e.MAX_RETRIES[1])
                  ELSE Some(DefaultMaxRetries),
   skipConnectionTest |-> e.SKIP_CONNECTION_TEST = Some("true"),
   maxMessageLength |-> IF Truthy(e.MAX_MESSAGE_LENGTH)
                        THEN parseInt(e.MAX_MESSAGE_LENGTH[1])
                        ELSE Some(DefaultMaxMessageLength)]

HasPrefix(s, prefix) ==
  Len(s) >= Len(prefix) /\ SubSeq(s, 1, Len(prefix)) = prefix

\* z.string().url(): a scheme followed by something.
IsUrl(s) ==
  \E scheme \in {"https://", "http://"} :
    HasPrefix(s, scheme) /\ Len(s) > Len(scheme)

ConfigIssue(path, message) == [path |-> path, message |-> message]

\* z.number().positive() on a field of the raw object.
PositiveIssues(path, n) ==
  IF n = NaN THEN <<ConfigIssue(path, "Expected number, received nan")>>
  ELSE IF n[1] <= 0 THEN <<ConfigIssue(path, "Number must be greater than 0")>>
  ELSE <<>>

\* The issues of ConfigSchema.safeParse(raw), mapped to {path, message}, in
\* the order of the schema's fields.
ConfigIssues(raw) ==
  (IF Len(raw.apiKey) < 1
   THEN <<ConfigIssue("apiKey", "DEEPSEEK_API_KEY is required")>> ELSE <<>>)
  \o (IF IsUrl(raw.baseUrl) THEN <<>>
      ELSE <<ConfigIssue("baseUrl", "Invalid url")>>)
  \o PositiveIssues("requestTimeout", raw.requestTimeout)
  \o (IF raw.maxRetries = NaN
      THEN <<ConfigIssue("maxRetries", "Expected number, received nan")>>
      ELSE IF raw.maxRetries[1] < 0
      THEN <<ConfigIssue("maxRetries",
                         "Number must be greater than or equal to 0")>>
      ELSE IF raw.maxRetries[1] > MaxMaxRetries
      THEN <<ConfigIssue("maxRetries",
                         "Number must be less than or equal to 10")>>
      ELSE <<>>)
  \o PositiveIssues("maxMessageLength", raw.maxMessageLength)

\* new ConfigError(message, issues)
ConfigError(message, issues) ==
  [type |-> "object", class |-> "ConfigError", name |-> "ConfigError",
   site |-> "loadConfig", message |-> message, issues |-> issues,
   cause |-> Undefined]

ApiKeyHint ==
  "\nPlease set your DeepSeek API key:\n  export DEEPSEEK_API_KEY=\"your-api-key-here\""

\* result.data: a new object, the id-th one, with the values of the raw one.
ConfigData(raw, id) ==
  [apiKey |-> raw.apiKey, baseUrl |-> raw.baseUrl,
   showCostInfo |-> raw.showCostInfo,
   requestTimeout |-> raw.requestTimeout[1],
   maxRetries |-> raw.maxRetries[1],
   skipConnectionTest |-> raw.skipConnectionTest,
   maxMessageLength |-> raw.maxMessageLength[1],
   id |-> id]

\* A loadConfig that empties the cache before it validates.
loadConfigOutcomeClearingCache(e, cache, id) ==
  LET raw == rawConfig(e)
  IN IF ConfigIssues(raw) # <<>>
     THEN [threw |-> TRUE,
           error |-> ConfigError("Configuration validation failed"
                                   \o (IF raw.apiKey = "" THEN ApiKeyHint ELSE ""),
                                 ConfigIssues(raw)),
           cache |-> Undefined]
     ELSE [threw |-> FALSE, value |-> ConfigData(raw, id),
           cache |-> Some(ConfigData(raw, id))]

\* loadConfig() in environment e with the cache holding `cache`: what it
\* throws or returns, and what the cache holds afterwards.
loadConfigOutcome(e, cache, id) ==
  LET raw == rawConfig(e)
  IN IF ConfigIssues(raw) # <<>>
     THEN [threw |-> TRUE,
           error |-> ConfigError("Configuration validation failed"
                                   \o (IF raw.apiKey = "" THEN ApiKeyHint ELSE ""),
                                 ConfigIssues(raw)),
           cache |-> cache]
     ELSE [threw |-> FALSE, value |-> ConfigData(raw, id),
           cache |-> Some(ConfigData(raw, id))]

\* new Error(message), thrown by getConfig.
ConfigNotLoaded ==
  [type |-> "object", class |-> "Error", site |-> "getConfig",
   message |-> "Config not loaded. Call loadConfig() first.",
   cause |-> Undefined]

\* A getConfig without its check: it returns whatever the cache holds.
getConfigOutcomeUnchecked(cache) ==
  [threw |-> FALSE, value |-> cache, cache |-> cache]

\* getConfig() with the cache holding `cache`.
getConfigOutcome(cache) ==
  IF cache = Undefined
  THEN [threw |-> TRUE, error |-> ConfigNotLoaded, cache |-> cache]
  ELSE [threw |-> FALSE, value |-> cache[1], cache |-> cache]

\* The environments the process is run in.
Envs ==
  { EmptyEnv,
    Env(Some("test-key"), Undefined, Undefined, Undefined, Undefined,
        Undefined, Undefined),
    Env(Some("test-key"), Some("https://custom.deepseek.com"), Some("false"),
        Some("30000"), Some("5"), Some("true"), Some("50000")),
    Env(Some("test-key"), Undefined, Undefined, Some("0"), Undefined,
        Undefined, Undefined),
    Env(Some("test-key"), Undefined, Undefined, Some("soon"), Undefined,
        Undefined, Undefined),
    Env(Some("test-key"), Some("not-a-url"), Undefined, Undefined, Some("11"),
        Undefined, Undefined),
    Env(Some(""), Undefined, Undefined, Undefined, Some("-1"), Undefined,
        Some("12px")) }

\* ----------------------------------------------------------------------- cost
\* Money is counted in units of 10^-8 USD, in which the prices per token are
\* whole numbers: 0.14 USD per million tokens is 14 units per token.
\* A number of the cost module is Some(n), or NaN.
PRICING ==
  [chat |-> [prompt |-> Some(14), completion |-> Some(28)],
   reasoner |-> [prompt |-> Some(55), completion |-> Some(219)]]

\* The names every object literal inherits from Object.prototype: PRICING[name]
\* is a function or an object for them, without prompt or completion.
ObjectPrototypeKeys ==
  {"constructor", "toString", "toLocaleString", "valueOf", "hasOwnProperty",
   "isPrototypeOf", "propertyIsEnumerable", "__proto__",
   "__defineGetter__", "__defineSetter__", "__lookupGetter__",
   "__lookupSetter__"}

\* PRICING[model] || PRICING['deepseek-chat']: an inherited property is
\* truthy, and its prompt and completion are undefined.
Pricing(model) ==
  IF model = "deepseek-chat" THEN PRICING.chat
  ELSE IF model = "deepseek-reasoner" THEN PRICING.reasoner
  ELSE IF model \in ObjectPrototypeKeys
  THEN [prompt |-> Undefined, completion |-> Undefined]
  ELSE PRICING.chat

\* a * b where b may be undefined or NaN: NaN then.
Times(a, b) == IF b = <<>> THEN NaN ELSE Some(a * b[1])
\* a + b of two numbers.
Plus(a, b) == IF a = NaN \/ b = NaN THEN NaN ELSE Some(a[1] + b[1])

calculateCost(promptTokens, completionTokens, model) ==
  Plus(Times(promptTokens, Pricing(model).prompt),
       Times(completionTokens, Pricing(model).completion))

\* n / d rounded to the nearest integer, halves upwards.
RoundDiv(n, d) == (2 * n + d) \div (2 * d)

RECURSIVE PadZeros(_, _)
PadZeros(digits, width) ==
  IF Len(digits) >= width THEN digits ELSE PadZeros("0" \o digits, width)

\* cost.toFixed(digits) for a cost in units of 10^-8 USD.
toFixed(cost, digits) ==
  IF cost = NaN THEN "NaN"
  ELSE LET n == RoundDiv(cost[1], 10 ^ (8 - digits))
       IN ToString(n \div (10 ^ digits)) \o "."
            \o PadZeros(ToString(n % (10 ^ digits)), digits)

\* One cent, in units of 10^-8 USD.
OneCent == 1000000

formatCost(cost) ==
  IF cost # NaN /\ cost[1] < OneCent
  THEN "$" \o toFixed(cost, 4) ELSE "$" \o toFixed(cost, 2)

\* -------------------------------------------------------------------- schemas
\* The arguments of a deepseek_chat invocation.
ChatInput(messages, model, temperature, max_tokens, stream, tools, tool_choice) ==
  [messages |-> messages, model |-> model, temperature |-> temperature,
   max_tokens |-> max_tokens, stream |-> stream, tools |-> tools,
   tool_choice |-> tool_choice]

InputMessage(role, content, tool_call_id) ==
  [role |-> role, content |-> content, tool_call_id |-> tool_call_id]

ExtendedRoles == {"system", "user", "assistant", "tool"}
Models == {"deepseek-chat", "deepseek-reasoner"}
\* Temperatures are in tenths: the schema's maximum 2 is 20.
MaxTemperature == 20
MaxMaxTokens == 32768

\* ExtendedMessageSchema on the message at position j (from 1): its issues.
\* content is a string in every input drawn here, and tool_call_id is optional
\* for every role.
MessageIssues(message, j) ==
  IF message.role \in ExtendedRoles THEN <<>>
  ELSE <<"invalid_enum_value at messages." \o ToString(j - 1) \o ".role">>

RECURSIVE MessagesIssues(_, _)
MessagesIssues(messages, j) ==
  IF j > Len(messages) THEN <<>>
  ELSE MessageIssues(messages[j], j) \o MessagesIssues(messages, j + 1)

RECURSIVE ToolsIssues(_, _)
\* ToolDefinitionSchema on each tool: the literal type and the non-empty name.
ToolsIssues(tools, j) ==
  IF j > Len(tools) THEN <<>>
  ELSE (IF tools[j].type # "function"
        THEN <<"invalid_literal at tools." \o ToString(j - 1) \o ".type">>
        ELSE <<>>)
       \o (IF tools[j].function.name = ""
           THEN <<"too_small at tools." \o ToString(j - 1) \o ".function.name">>
           ELSE <<>>)
       \o ToolsIssues(tools, j + 1)

\* The issues ChatInputWithToolsSchema finds, in the order of its fields.
ChatInputIssues(input) ==
  (IF Len(input.messages) < 1 THEN <<"too_small at messages">> ELSE <<>>)
  \o MessagesIssues(input.messages, 1)
  \o (IF IsDefined(input.model) /\ input.model[1] \notin Models
      THEN <<"invalid_enum_value at model">> ELSE <<>>)
  \o (IF IsDefined(input.temperature) /\ input.temperature[1] < 0
      THEN <<"too_small at temperature">> ELSE <<>>)
  \o (IF IsDefined(input.temperature) /\ input.temperature[1] > MaxTemperature
      THEN <<"too_big at temperature">> ELSE <<>>)
  \o (IF IsDefined(input.max_tokens) /\ input.max_tokens[1] < 1
      THEN <<"too_small at max_tokens">> ELSE <<>>)
  \o (IF IsDefined(input.max_tokens) /\ input.max_tokens[1] > MaxMaxTokens
      THEN <<"too_big at max_tokens">> ELSE <<>>)
  \o (IF IsDefined(input.tools) THEN ToolsIssues(input.tools[1], 1) ELSE <<>>)

RECURSIVE JoinIssues(_)
JoinIssues(issues) ==
  IF issues = <<>> THEN ""
  ELSE IF Len(issues) = 1 THEN issues[1]
  ELSE issues[1] \o ", " \o JoinIssues(Tail(issues))

\* new ZodError(issues): its message is the list of the issues.
ZodError(issues) ==
  [type |-> "object", class |-> "ZodError", site |-> "parse",
   message |-> "[" \o JoinIssues(issues) \o "]", cause |-> Undefined]

\* ChatInputWithToolsSchema.parse(input): the validated data with the defaults
\* of model and stream filled in, or the ZodError it throws.
parseChatInput(input) ==
  IF ChatInputIssues(input) # <<>>
  THEN [threw |-> TRUE, error |-> ZodError(ChatInputIssues(input))]
  ELSE [threw |-> FALSE,
        value |-> [messages |-> input.messages,
                   model |-> IF IsDefined(input.model) THEN input.model[1]
                             ELSE "deepseek-chat",
                   temperature |-> input.temperature,
                   max_tokens |-> input.max_tokens,
                   stream |-> IF IsDefined(input.stream) THEN input.stream[1]
                              ELSE FALSE,
                   tools |-> input.tools,
                   tool_choice |-> input.tool_choice]]

\* --------------------------------------------------------- deepseek_chat tool
\* The text of the error validateMessageLength throws.
LengthMessage(maxLen) ==
  "Message content exceeds maximum length of " \o ToString(maxLen)
    \o " characters"

\* new Error(message), thrown by the tool's own code.
ToolError(message) ==
  [type |-> "object", class |-> "Error", site |-> "validateMessageLength",
   message |-> message, cause |-> Undefined]

\* validateMessageLength with >= for >.
validateMessageLengthRejectingLimit(cfg, input) ==
  IF \E j \in 1..Len(input.messages) :
       Len(input.messages[j].content) >= cfg.maxMessageLength
  THEN [threw |-> TRUE, error |-> ToolError(LengthMessage(cfg.maxMessageLength))]
  ELSE [threw |-> FALSE]

\* validateMessageLength(input) under the loaded configuration: whether it
\* throws, and what.
validateMessageLength(cfg, input) ==
  IF \E j \in 1..Len(input.messages) :
       Len(input.messages[j].content) > cfg.maxMessageLength
  THEN [threw |-> TRUE, error |-> ToolError(LengthMessage(cfg.maxMessageLength))]
  ELSE [threw |-> FALSE]

\* The handler's try block up to its await: what it throws, or the validated
\* input it goes on with.
validateInput(cfg, input) ==
  IF validateMessageLength(cfg, input).threw
  THEN validateMessageLength(cfg, input)
  ELSE parseChatInput(input)

\* The params the handler calls the client with.
ClientParams(validated) ==
  ChatCompletionParams(validated.model, validated.messages,
                       validated.temperature, validated.max_tokens,
                       validated.tools, validated.tool_choice)

\* The backquote, which a string of this language cannot hold: the apostrophe
\* stands for it.
Backquote == "'"

RECURSIVE FunctionCallsText(_)
FunctionCallsText(tool_calls) ==
  IF tool_calls = <<>> THEN ""
  ELSE Backquote \o Head(tool_calls).function.name \o Backquote \o "\n"
       \o "- Call ID: " \o Head(tool_calls).id \o "\n"
       \o "- Arguments: " \o Head(tool_calls).function.arguments \o "\n\n"
       \o FunctionCallsText(Tail(tool_calls))

\* The text the handler formats from a response.
responseText(cfg, response) ==
  LET toolCallCount ==
        IF IsDefined(response.tool_calls) THEN Len(response.tool_calls[1]) ELSE 0
      cost == calculateCost(response.usage.prompt_tokens,
                            response.usage.completion_tokens, response.model)
  IN (IF Truthy(response.reasoning_content)
      THEN "<thinking>\n" \o response.reasoning_content[1] \o "\n</thinking>\n\n"
      ELSE "")
     \o response.content
     \o (IF toolCallCount > 0
         THEN "\n\n**Function Calls:**\n" \o FunctionCallsText(response.tool_calls[1])
         ELSE "")
     \o (IF cfg.showCostInfo
         THEN "\n---\n**Request Information:**\n"
              \o "- **Tokens:** " \o ToString(response.usage.total_tokens)
              \o " (" \o ToString(response.usage.prompt_tokens) \o " prompt + "
              \o ToString(response.usage.completion_tokens) \o " completion)\n"
              \o "- **Model:** " \o response.model \o "\n"
              \o "- **Cost:** " \o formatCost(cost)
              \o (IF toolCallCount > 0
                  THEN "\n- **Tool Calls:** " \o ToString(toolCallCount)
                  ELSE "")
         ELSE "")

TextItem(text) == [type |-> "text", text |-> text]

\* parseFloat(cost.toFixed(6)), in units of 10^-6 USD.
CostUsd(cost) == IF cost = NaN THEN NaN ELSE Some(RoundDiv(cost[1], 100))

\* A handler that computes the cost only when it is shown.
handlerSuccessCostOnlyWhenShown(cfg, response) ==
  [state |-> "returned",
   value |->
     [content |-> <<TextItem(responseText(cfg, response))>>,
      isError |-> Undefined,
      structuredContent |->
        Some([content |-> response.content,
              reasoning_content |-> response.reasoning_content,
              model |-> response.model,
              usage |-> response.usage,
              finish_reason |-> response.finish_reason,
              tool_calls |-> response.tool_calls,
              cost_usd |->
                IF cfg.showCostInfo
                THEN CostUsd(calculateCost(response.usage.prompt_tokens,
                                           response.usage.completion_tokens,
                                           response.model))
                ELSE Some(0)])]]

\* What the handler returns from its try block.
handlerSuccess(cfg, response) ==
  [state |-> "returned",
   value |->
     [content |-> <<TextItem(responseText(cfg, response))>>,
      isError |-> Undefined,
      structuredContent |->
        Some([content |-> response.content,
              reasoning_content |-> response.reasoning_content,
              model |-> response.model,
              usage |-> response.usage,
              finish_reason |-> response.finish_reason,
              tool_calls |-> response.tool_calls,
              cost_usd |->
                CostUsd(calculateCost(response.usage.prompt_tokens,
                                      response.usage.completion_tokens,
                                      response.model))])]]

\* A handler without catch block: the error leaves the handler.
handlerCatchRethrowing(error) ==
  [state |-> "threw", value |-> error]

\* What the handler returns from its catch block.
handlerCatch(error) ==
  [state |-> "returned",
   value |-> [content |-> <<TextItem("Error: " \o getErrorMessage(error))>>,
              isError |-> Some(TRUE),
              structuredContent |-> Undefined]]

\* The configured message length limit of the tool invocations drawn below.
SmallMessageLength == 3

RECURSIVE Text(_)
\* A content of n characters.
Text(n) == IF n = 0 THEN "" ELSE "x" \o Text(n - 1)

\* The message lists of the invocations: contents below, at and above the
\* limit; tool messages with and without tool_call_id; an empty list and a
\* role the schema does not know.
InputMessageLists ==
  { <<InputMessage("user", Text(1), Undefined)>>,
    <<InputMessage("user", Text(SmallMessageLength), Undefined)>>,
    <<InputMessage("user", Text(SmallMessageLength + 1), Undefined)>>,
    <<InputMessage("system", Text(1), Undefined),
      InputMessage("user", Text(SmallMessageLength + 1), Undefined)>>,
    <<InputMessage("tool", Text(1), Undefined)>>,
    <<InputMessage("user", Text(1), Undefined),
      InputMessage("tool", Text(1), Some("call_1"))>>,
    <<>>,
    <<InputMessage("function", Text(1), Undefined)>>,
    <<InputMessage("function", Text(SmallMessageLength + 1), Undefined)>> }

ChatInputs ==
  { ChatInput(ms, Undefined, Undefined, Undefined, st, Undefined, Undefined) :
      ms \in InputMessageLists, st \in {Undefined, Some(TRUE)} }
  \cup { ChatInput(<<InputMessage("user", Text(1), Undefined)>>,
                   Some("deepseek-reasoner"), t, Some(10), Some(FALSE),
                   Some(<<WeatherTool>>), Some("auto")) :
           t \in {Some(0), Some(MaxTemperature + 1)} }

\* ---------------------------------------------------------------------- state
VARIABLES
  op,           \* the client method under way: "none", "chat" or "stream"
  pc,           \* where that call is: "idle", "awaitCreate", "iterating",
                \* "resolved", "rejected"
  params,       \* the ChatCompletionParams of the call, once issued
  requests,     \* the requests handed to the transport, in order
  locals,       \* the local variables of createStreamingChatCompletion
  consumed,     \* the chunks the stream has yielded so far
  rawResponse,  \* the response the transport resolved with (non-streaming)
  thrown,       \* the value thrown inside the try block, if any
  result,       \* the response the call's promise resolved with
  rejection,    \* the value the call's promise rejected with
  tcPc,         \* testConnection: "idle", "awaiting", "done"
  tcOutcome,    \* what testConnection's promise settled with
  calls,        \* concurrent client calls: the state of each, by call number
  frames,       \* concurrent client calls: the frames holding their locals
  config,       \* the loaded configuration
  input,        \* deepseek_chat: the arguments the handler was invoked with
  hPc,          \* deepseek_chat: "idle", "awaiting", "done"
  toolOutcome,  \* deepseek_chat: what the handler's promise settled with
  env,          \* config module: the environment variables of the process
  cachedConfig, \* config module: its cache
  lastLoaded,   \* config module: what the last successful loadConfig since
                \* the last resetConfig returned (history)
  loads,        \* config module: the loadConfig calls made so far
  configOutcome,\* config module: the last call, and how it ended
  pureCall,     \* a function applied on its own, with its arguments
  pureOutcome   \* what that application returned or threw

\* The variables of the config module and of the functions applied on their
\* own.
auxVars == <<env, cachedConfig, lastLoaded, loads, configOutcome, pureCall,
             pureOutcome>>

vars == <<op, pc, params, requests, locals, consumed, rawResponse, thrown,
          result, rejection, tcPc, tcOutcome, calls, frames, config, input,
          hPc, toolOutcome, env, cachedConfig, lastLoaded, loads,
          configOutcome, pureCall, pureOutcome>>

\* The config module as the process starts, and no function applied.
\* The config module as loaded: nothing cached.
InitConfig ==
  /\ env = EmptyEnv
  /\ cachedConfig = Undefined
  /\ lastLoaded = Undefined
  /\ loads = 0
  /\ configOutcome = Undefined

InitAux ==
  /\ InitConfig
  /\ pureCall = Undefined
  /\ pureOutcome = Undefined

\* A client call that has not begun.
IdleCall ==
  [op |-> "none", pc |-> "idle", params |-> Undefined, consumed |-> <<>>,
   rawResponse |-> Undefined, thrown |-> Undefined, result |-> Undefined,
   rejection |-> Undefined]

\* No concurrent calls and no tool invocation under way.
InitRest ==
  /\ calls = [c \in 1..MaxCalls |-> IdleCall]
  /\ frames = [c \in 1..MaxCalls |-> Undefined]
  /\ config = DefaultConfig
  /\ input = Undefined
  /\ hPc = "idle"
  /\ toolOutcome = Undefined
  /\ InitAux

Init ==
  /\ op = "none"
  /\ pc = "idle"
  /\ params = Undefined
  /\ requests = <<>>
  /\ locals = Undefined
  /\ consumed = <<>>
  /\ rawResponse = Undefined
  /\ thrown = Undefined
  /\ result = Undefined
  /\ rejection = Undefined
  /\ tcPc = "idle"
  /\ tcOutcome = Undefined
  /\ InitRest

\* ------------------------------------------------ createStreamingChatCompletion
\* The call builds its request and awaits the transport's create().
StartStream(p) ==
  /\ pc = "idle" /\ tcPc = "idle"
  /\ op' = "stream"
  /\ params' = Some(p)
  /\ requests' = Append(requests, buildRequestParams(p, TRUE))
  /\ pc' = "awaitCreate"
  /\ UNCHANGED <<locals, consumed, rawResponse, thrown, result, rejection,
                 tcPc, tcOutcome>>

\* create() resolves with the stream; the locals are declared.
StreamOpens ==
  /\ op = "stream" /\ pc = "awaitCreate"
  /\ locals' = Some(InitialLocals(params[1]))
  /\ pc' = "iterating"
  /\ UNCHANGED <<op, params, requests, consumed, rawResponse, thrown, result,
                 rejection, tcPc, tcOutcome>>

\* The stream yields one more chunk and the loop body runs on it.
NextChunk(chunk) ==
  /\ op = "stream" /\ pc = "iterating"
  /\ Len(consumed) < MaxChunks
  /\ consumed' = Append(consumed, chunk)
  /\ locals' = Some(foldChunk(locals[1], chunk))
  /\ UNCHANGED <<op, pc, params, requests, rawResponse, thrown, result,
                 rejection, tcPc, tcOutcome>>

\* The stream is exhausted: the response is built and returned.
StreamEnds ==
  /\ op = "stream" /\ pc = "iterating"
  /\ result' = Some(streamResponse(locals[1]))
  /\ pc' = "resolved"
  /\ UNCHANGED <<op, params, requests, locals, consumed, rawResponse, thrown,
                 rejection, tcPc, tcOutcome>>

\* A catch block that returns what was accumulated when the iteration throws.
StreamThrowsReturningPartial(e) ==
  /\ op = "stream" /\ pc \in {"awaitCreate", "iterating"}
  /\ thrown' = Some(e)
  /\ IF pc = "iterating"
     THEN /\ result' = Some(streamResponse(locals[1]))
          /\ pc' = "resolved"
          /\ UNCHANGED rejection
     ELSE /\ rejection' = Some(wrapError(e, StreamContext))
          /\ pc' = "rejected"
          /\ UNCHANGED result
  /\ UNCHANGED <<op, params, requests, locals, consumed, rawResponse,
                 tcPc, tcOutcome>>

\* create() rejects, or the iteration throws: the catch block runs.
StreamThrows(e) ==
  /\ op = "stream" /\ pc \in {"awaitCreate", "iterating"}
  /\ thrown' = Some(e)
  /\ rejection' = Some(wrapError(e, StreamContext))
  /\ pc' = "rejected"
  /\ UNCHANGED <<op, params, requests, locals, consumed, rawResponse, result,
                 tcPc, tcOutcome>>

\* --------------------------------------------------------- createChatCompletion
\* The body of createChatCompletion up to its await.
IssueChat(p) ==
  /\ op' = "chat"
  /\ params' = Some(p)
  /\ requests' = Append(requests, buildRequestParams(p, FALSE))
  /\ pc' = "awaitCreate"
  /\ UNCHANGED <<locals, consumed, rawResponse, thrown, result, rejection>>

StartChat(p) ==
  /\ pc = "idle" /\ tcPc = "idle"
  /\ IssueChat(p)
  /\ UNCHANGED <<tcPc, tcOutcome>>

\* create() resolves with a raw response, which is reduced.
ChatResolves(raw) ==
  /\ op = "chat" /\ pc = "awaitCreate"
  /\ rawResponse' = Some(raw)
  /\ LET r == reduceResponse(raw)
     IN IF r.threw
        THEN /\ thrown' = Some(r.error)
             /\ rejection' = Some(wrapError(r.error, ChatContext))
             /\ pc' = "rejected"
             /\ UNCHANGED result
        ELSE /\ result' = Some(r.value)
             /\ pc' = "resolved"
             /\ UNCHANGED <<thrown, rejection>>
  /\ UNCHANGED <<op, params, requests, locals, consumed, tcPc, tcOutcome>>

\* A catch block that issues the request once more before it gives up.
ChatThrowsReissuing(e) ==
  /\ op = "chat" /\ pc = "awaitCreate"
  /\ IF Len(requests) < 2
     THEN /\ requests' = Append(requests, requests[1])
          /\ UNCHANGED <<thrown, rejection, pc>>
     ELSE /\ thrown' = Some(e)
          /\ rejection' = Some(wrapError(e, ChatContext))
          /\ pc' = "rejected"
          /\ UNCHANGED requests
  /\ UNCHANGED <<op, params, locals, consumed, rawResponse, result,
                 tcPc, tcOutcome>>

\* create() rejects: the catch block runs.
ChatThrows(e) ==
  /\ op = "chat" /\ pc = "awaitCreate"
  /\ thrown' = Some(e)
  /\ rejection' = Some(wrapError(e, ChatContext))
  /\ pc' = "rejected"
  /\ UNCHANGED <<op, params, requests, locals, consumed, rawResponse, result,
                 tcPc, tcOutcome>>

\* --------------------------------------------------------------- testConnection
\* testConnection issues its probe through createChatCompletion.
StartTestConnection ==
  /\ pc = "idle" /\ tcPc = "idle"
  /\ IssueChat(TestConnectionParams)
  /\ tcPc' = "awaiting"
  /\ UNCHANGED tcOutcome

\* The probe has settled: testConnection returns.
TestConnectionReturns ==
  /\ tcPc = "awaiting" /\ pc \in {"resolved", "rejected"}
  /\ tcOutcome' = Some(testConnectionOutcome(pc, result, rejection))
  /\ tcPc' = "done"
  /\ UNCHANGED <<op, pc, params, requests, locals, consumed, rawResponse,
                 thrown, result, rejection>>

\* ---------------------------------------------------------- deepseek_chat tool
\* The handler is invoked and runs to its await, or to its catch block when
\* the validation throws.
HandlerInvoked(i) ==
  /\ hPc = "idle"
  /\ input' = Some(i)
  /\ LET v == validateInput(config, i)
     IN IF v.threw
        THEN /\ toolOutcome' = Some(handlerCatch(v.error))
             /\ hPc' = "done"
             /\ UNCHANGED <<op, pc, params, requests, locals, consumed,
                            rawResponse, thrown, result, rejection, tcPc,
                            tcOutcome>>
        ELSE /\ IF v.value.stream
                THEN StartStream(ClientParams(v.value))
                ELSE StartChat(ClientParams(v.value))
             /\ hPc' = "awaiting"
             /\ UNCHANGED toolOutcome
  /\ UNCHANGED <<config, calls, frames>>
  /\ UNCHANGED auxVars

\* The client call has settled: the handler formats the response, or its catch
\* block the error.
HandlerReturns ==
  /\ hPc = "awaiting" /\ pc \in {"resolved", "rejected"}
  /\ toolOutcome' = Some(IF pc = "resolved"
                         THEN handlerSuccess(config, result[1])
                         ELSE handlerCatch(rejection[1]))
  /\ hPc' = "done"
  /\ UNCHANGED <<op, pc, params, requests, locals, consumed, rawResponse,
                 thrown, result, rejection, tcPc, tcOutcome, config, input,
                 calls, frames>>
  /\ UNCHANGED auxVars

\* --------------------------------------------------------------- pure functions
\* The token counts a cost is computed for.
MaxTokens == 2
TokenCounts == 0..MaxTokens \cup {1000, 1000000}

CostModels ==
  {"deepseek-chat", "deepseek-reasoner", "unknown-model", "",
   "constructor", "toString", "__proto__"}

\* The options a caller hands to an error constructor, the properties a
\* subclass fixes included.
ErrorOptionsSet ==
  {Undefined} \cup
  { Some(ErrorOptions(cause, statusCode, retryable)) :
      cause \in {Undefined, Some(TransportError("socket hang up"))},
      statusCode \in {Undefined, Some(500)},
      retryable \in {Undefined, Some(TRUE), Some(FALSE)} }

\* What wrapError may be handed: what the transport throws (its errors for a
\* rate limit, a rejected key and a timeout among them), values that are no
\* Error, and errors of this repository's own classes.
WrapErrorInputs ==
  TransportThrows \cup
  { SdkError("OpenAI.RateLimitError", "429 Rate limit reached",
             Some(StatusTooManyRequests)),
    SdkError("OpenAI.AuthenticationError", "401 Incorrect API key provided",
             Some(StatusUnauthorized)),
    SdkError("OpenAI.APIConnectionTimeoutError", "Request timed out.", Undefined),
    ConnectionError("fetch failed", Undefined),
    NewApiError("Bad gateway", Some(ErrorOptions(Undefined, Some(502), Some(TRUE)))),
    RateLimitError("Slow down", Undefined),
    AuthenticationError("Bad key", Undefined) }

ErrorClasses ==
  {"ApiError", "RateLimitError", "AuthenticationError", "ConnectionError"}

PureCalls ==
  [fn : {"calculateCost"}, promptTokens : TokenCounts,
   completionTokens : TokenCounts, model : CostModels]
  \cup [fn : {"new"}, class : ErrorClasses, message : {"boom"},
        options : ErrorOptionsSet]
  \cup [fn : {"wrapError"}, error : WrapErrorInputs,
        context : {ChatContext, StreamContext}]

InitPure ==
  /\ op = "none"
  /\ pc = "idle"
  /\ params = Undefined
  /\ requests = <<>>
  /\ locals = Undefined
  /\ consumed = <<>>
  /\ rawResponse = Undefined
  /\ thrown = Undefined
  /\ result = Undefined
  /\ rejection = Undefined
  /\ tcPc = "idle"
  /\ tcOutcome = Undefined
  /\ calls = [c \in 1..MaxCalls |-> IdleCall]
  /\ frames = [c \in 1..MaxCalls |-> Undefined]
  /\ config = DefaultConfig
  /\ input = Undefined
  /\ hPc = "idle"
  /\ toolOutcome = Undefined
  /\ InitConfig
  /\ pureCall \in { Some(c) : c \in PureCalls }
  /\ pureOutcome = Undefined

\* Nothing but the outcome of the call changes.
PureOnly ==
  UNCHANGED <<op, pc, params, requests, locals, consumed, rawResponse, thrown,
              result, rejection, tcPc, tcOutcome, calls, frames, config, input,
              hPc, toolOutcome, env, cachedConfig, lastLoaded, loads,
              configOutcome, pureCall>>

CalculateCost ==
  /\ pureOutcome = Undefined
  /\ pureCall[1].fn = "calculateCost"
  /\ pureOutcome' = Some(calculateCost(pureCall[1].promptTokens,
                                       pureCall[1].completionTokens,
                                       pureCall[1].model))
  /\ PureOnly

\* new <class>(message, options)
Construct(class) ==
  /\ pureOutcome = Undefined
  /\ pureCall[1].fn = "new"
  /\ pureCall[1].class = class
  /\ pureOutcome' =
       Some(CASE class = "ApiError" ->
                   NewApiError(pureCall[1].message, pureCall[1].options)
              [] class = "RateLimitError" ->
                   RateLimitError(pureCall[1].message, pureCall[1].options)
              [] class = "AuthenticationError" ->
                   AuthenticationError(pureCall[1].message, pureCall[1].options)
              [] class = "ConnectionError" ->
                   ConnectionError(pureCall[1].message, pureCall[1].options))
  /\ PureOnly

\* wrapError throws: the outcome is what it throws.
WrapError ==
  /\ pureOutcome = Undefined
  /\ pureCall[1].fn = "wrapError"
  /\ pureOutcome' = Some(wrapError(pureCall[1].error, pureCall[1].context))
  /\ PureOnly

NextPure ==
  \/ CalculateCost
  \/ \E class \in ErrorClasses : Construct(class)
  \/ WrapError

SpecPure == InitPure /\ [][NextPure]_vars

\* ---------------------------------------------------------------- config module
\* Everything but the config module stands still.
ConfigOnly ==
  UNCHANGED <<op, pc, params, requests, locals, consumed, rawResponse, thrown,
              result, rejection, tcPc, tcOutcome, calls, frames, config, input,
              hPc, toolOutcome, pureCall, pureOutcome>>

\* The environment of the process is changed.
SetEnv(e) ==
  /\ env # e
  /\ env' = e
  /\ UNCHANGED <<cachedConfig, lastLoaded, loads, configOutcome>>
  /\ ConfigOnly

LoadConfig ==
  /\ loads < MaxLoads
  /\ loads' = loads + 1
  /\ LET o == loadConfigOutcome(env, cachedConfig, loads + 1)
     IN /\ cachedConfig' = o.cache
        /\ lastLoaded' = IF o.threw THEN lastLoaded ELSE Some(o.value)
        /\ configOutcome' =
             Some([op |-> "loadConfig", threw |-> o.threw,
                   value |-> IF o.threw THEN o.error ELSE o.value,
                   cacheBefore |-> cachedConfig, env |-> env])
  /\ UNCHANGED env
  /\ ConfigOnly

GetConfig ==
  /\ LET o == getConfigOutcome(cachedConfig)
     IN /\ cachedConfig' = o.cache
        /\ configOutcome' =
             Some([op |-> "getConfig", threw |-> o.threw,
                   value |-> IF o.threw THEN o.error ELSE o.value,
                   cacheBefore |-> cachedConfig, env |-> env])
  /\ UNCHANGED <<env, lastLoaded, loads>>
  /\ ConfigOnly

ResetConfig ==
  /\ cachedConfig' = Undefined
  /\ lastLoaded' = Undefined
  /\ configOutcome' =
       Some([op |-> "resetConfig", threw |-> FALSE, value |-> Undefined,
             cacheBefore |-> cachedConfig, env |-> env])
  /\ UNCHANGED <<env, loads>>
  /\ ConfigOnly

NextConfig ==
  \/ \E e \in Envs : SetEnv(e)
  \/ LoadConfig
  \/ GetConfig
  \/ ResetConfig

SpecConfig == Init /\ [][NextConfig]_vars

\* ------------------------------------------------------------- specifications
\* A step of the client alone: no concurrent call and no tool invocation moves.
ClientOnly ==
  /\ UNCHANGED <<calls, frames, config, input, hPc, toolOutcome>>
  /\ UNCHANGED auxVars

NextStream ==
  \/ \E p \in ParamsSet : StartStream(p) /\ ClientOnly
  \/ StreamOpens /\ ClientOnly
  \/ \E chunk \in Chunks : NextChunk(chunk) /\ ClientOnly
  \/ StreamEnds /\ ClientOnly
  \/ \E e \in TransportThrows : StreamThrows(e) /\ ClientOnly

NextChat ==
  \/ \E p \in ParamsSet : StartChat(p) /\ ClientOnly
  \/ \E raw \in RawResponses : ChatResolves(raw) /\ ClientOnly
  \/ \E e \in TransportThrows : ChatThrows(e) /\ ClientOnly
  \/ StartTestConnection /\ ClientOnly
  \/ TestConnectionReturns /\ ClientOnly

Next == NextStream \/ NextChat

\* Every client call.
Spec == Init /\ [][Next]_vars

\* createChatCompletion and testConnection only.
SpecChat == Init /\ [][NextChat]_vars

\* ---------------------------------------------- buildRequestParams on its own
\* A caller holds some params ...
InitBuild ==
  /\ op = "none"
  /\ pc = "idle"
  /\ params \in { Some(p) : p \in BuildParamsSet }
  /\ requests = <<>>
  /\ locals = Undefined
  /\ consumed = <<>>
  /\ rawResponse = Undefined
  /\ thrown = Undefined
  /\ result = Undefined
  /\ rejection = Undefined
  /\ tcPc = "idle"
  /\ tcOutcome = Undefined
  /\ InitRest

\* ... and builds the request of a streaming or non-streaming call from them.
BuildRequest(stream) ==
  /\ requests = <<>>
  /\ requests' = <<buildRequestParams(params[1], stream)>>
  /\ UNCHANGED <<op, pc, params, locals, consumed, rawResponse, thrown, result,
                 rejection, tcPc, tcOutcome>>
  /\ ClientOnly

NextBuild == \E stream \in BOOLEAN : BuildRequest(stream)

SpecBuild == InitBuild /\ [][NextBuild]_vars

\* ------------------------------------------- client calls running concurrently
\* Several calls of createChatCompletion and createStreamingChatCompletion are
\* under way on one client; each step below is one call running from one of
\* its awaits to the next.

\* All calls keep their locals in one place, as if the accumulators were
\* fields of the client.
FrameOfClient(c) == 1

\* Where call c keeps its locals: they are declared inside the method, so each
\* invocation has its own.
FrameOf(c) == c

\* The params call c is made with: the calls alternate between the two models.
ParamsOfCall(c) ==
  CHOOSE p \in ParamsSet :
    p.model = IF c % 2 = 1 THEN "deepseek-chat" ELSE "deepseek-reasoner"

ConcurrentChunks == TextChunks

ConcurrentResponses ==
  { RawResponse(<<RawChoice(RawMessage(Some("Hi!"), Undefined, Undefined),
                            Undefined)>>,
                "deepseek-chat", Some(Usage(5, 2, 7))),
    RawResponse(<<>>, "deepseek-chat", Undefined) }

ConcurrentThrows == { e \in TransportThrows : IsError(e) }

CallStartsStream(c, p) ==
  /\ calls[c].pc = "idle"
  /\ calls' = [calls EXCEPT ![c] = [@ EXCEPT !.op = "stream",
                                             !.params = Some(p),
                                             !.pc = "awaitCreate"]]
  /\ UNCHANGED frames

CallStreamOpens(c) ==
  /\ calls[c].op = "stream" /\ calls[c].pc = "awaitCreate"
  /\ frames' = [frames EXCEPT
                  ![FrameOf(c)] = Some(InitialLocals(calls[c].params[1]))]
  /\ calls' = [calls EXCEPT ![c].pc = "iterating"]

CallNextChunk(c, chunk) ==
  /\ calls[c].op = "stream" /\ calls[c].pc = "iterating"
  /\ Len(calls[c].consumed) < MaxConcurrentChunks
  /\ frames' = [frames EXCEPT
                  ![FrameOf(c)] = Some(foldChunk(frames[FrameOf(c)][1], chunk))]
  /\ calls' = [calls EXCEPT ![c].consumed = Append(@, chunk)]

CallStreamEnds(c) ==
  /\ calls[c].op = "stream" /\ calls[c].pc = "iterating"
  /\ calls' = [calls EXCEPT
                 ![c] = [@ EXCEPT
                           !.result = Some(streamResponse(frames[FrameOf(c)][1])),
                           !.pc = "resolved"]]
  /\ UNCHANGED frames

CallStreamThrows(c, e) ==
  /\ calls[c].op = "stream" /\ calls[c].pc \in {"awaitCreate", "iterating"}
  /\ calls' = [calls EXCEPT
                 ![c] = [@ EXCEPT !.thrown = Some(e),
                                  !.rejection = Some(wrapError(e, StreamContext)),
                                  !.pc = "rejected"]]
  /\ UNCHANGED frames

CallStartsChat(c, p) ==
  /\ calls[c].pc = "idle"
  /\ calls' = [calls EXCEPT ![c] = [@ EXCEPT !.op = "chat",
                                             !.params = Some(p),
                                             !.pc = "awaitCreate"]]
  /\ UNCHANGED frames

CallChatResolves(c, raw) ==
  /\ calls[c].op = "chat" /\ calls[c].pc = "awaitCreate"
  /\ LET r == reduceResponse(raw)
     IN calls' = [calls EXCEPT
                    ![c] = IF r.threw
                           THEN [@ EXCEPT
                                   !.rawResponse = Some(raw),
                                   !.thrown = Some(r.error),
                                   !.rejection = Some(wrapError(r.error, ChatContext)),
                                   !.pc = "rejected"]
                           ELSE [@ EXCEPT !.rawResponse = Some(raw),
                                          !.result = Some(r.value),
                                          !.pc = "resolved"]]
  /\ UNCHANGED frames

CallChatThrows(c, e) ==
  /\ calls[c].op = "chat" /\ calls[c].pc = "awaitCreate"
  /\ calls' = [calls EXCEPT
                 ![c] = [@ EXCEPT !.thrown = Some(e),
                                  !.rejection = Some(wrapError(e, ChatContext)),
                                  !.pc = "rejected"]]
  /\ UNCHANGED frames

\* A step of a concurrent call: the single call and the tool handler stand still.
CallsOnly ==
  /\ UNCHANGED <<op, pc, params, requests, locals, consumed, rawResponse,
                 thrown, result, rejection, tcPc, tcOutcome, config, input, hPc,
                 toolOutcome>>
  /\ UNCHANGED auxVars

NextConcurrent ==
  \/ \E c \in 1..MaxCalls : CallStartsStream(c, ParamsOfCall(c)) /\ CallsOnly
  \/ \E c \in 1..MaxCalls : CallStreamOpens(c) /\ CallsOnly
  \/ \E c \in 1..MaxCalls, chunk \in ConcurrentChunks :
       CallNextChunk(c, chunk) /\ CallsOnly
  \/ \E c \in 1..MaxCalls : CallStreamEnds(c) /\ CallsOnly
  \/ \E c \in 1..MaxCalls, e \in ConcurrentThrows :
       CallStreamThrows(c, e) /\ CallsOnly
  \/ \E c \in 1..MaxCalls : CallStartsChat(c, ParamsOfCall(c)) /\ CallsOnly
  \/ \E c \in 1..MaxCalls, raw \in ConcurrentResponses :
       CallChatResolves(c, raw) /\ CallsOnly
  \/ \E c \in 1..MaxCalls, e \in ConcurrentThrows :
       CallChatThrows(c, e) /\ CallsOnly

SpecConcurrent == Init /\ [][NextConcurrent]_vars

\* ------------------------------------------------------- deepseek_chat invoked
\* The server has loaded a configuration with a small message length limit.
InitTool ==
  /\ op = "none"
  /\ pc = "idle"
  /\ params = Undefined
  /\ requests = <<>>
  /\ locals = Undefined
  /\ consumed = <<>>
  /\ rawResponse = Undefined
  /\ thrown = Undefined
  /\ result = Undefined
  /\ rejection = Undefined
  /\ tcPc = "idle"
  /\ tcOutcome = Undefined
  /\ calls = [c \in 1..MaxCalls |-> IdleCall]
  /\ frames = [c \in 1..MaxCalls |-> Undefined]
  /\ config \in { Config(s, SmallMessageLength) : s \in BOOLEAN }
  /\ input = Undefined
  /\ hPc = "idle"
  /\ toolOutcome = Undefined
  /\ InitAux

\* What the transport answers the handler's client call with.
ToolStreamChunks == TextChunks \cup EmptyChoiceChunks

ToolResponses ==
  { RawResponse(<<RawChoice(RawMessage(Some("Hi!"), r, t), Some("length"))>>,
                "deepseek-chat", Some(Usage(5, 2, 7))) :
      r \in {Some(""), Some("because")}, t \in RawToolCallLists }
  \cup { RawResponse(<<RawChoice(RawMessage(Some("Hi!"), Some("because"),
                                            Undefined), Some("stop"))>>,
                     "deepseek-reasoner", Some(Usage(1000, 500, 1500))) }
  \cup { RawResponse(<<>>, "deepseek-chat", Undefined) }

\* A step of the client inside a tool invocation.
ToolWaits ==
  /\ UNCHANGED <<calls, frames, config, input, hPc, toolOutcome>>
  /\ UNCHANGED auxVars

NextTool ==
  \/ \E i \in ChatInputs : HandlerInvoked(i)
  \/ StreamOpens /\ ToolWaits
  \/ \E chunk \in ToolStreamChunks : NextChunk(chunk) /\ ToolWaits
  \/ StreamEnds /\ ToolWaits
  \/ \E e \in TransportThrows : StreamThrows(e) /\ ToolWaits
  \/ \E raw \in ToolResponses : ChatResolves(raw) /\ ToolWaits
  \/ \E e \in TransportThrows : ChatThrows(e) /\ ToolWaits
  \/ HandlerReturns

SpecTool == InitTool /\ [][NextTool]_vars

\* ------------------------------------------- what a stream delivered (history)
RECURSIVE AllDeltas(_)
\* The tool-call deltas of the events, flattened in arrival order.
AllDeltas(events) ==
  IF events = <<>> THEN <<>>
  ELSE LET chunk == Head(events)
           here == IF Len(chunk.choices) > 0
                      /\ chunk.choices[1].delta.tool_calls # <<>>
                   THEN chunk.choices[1].delta.tool_calls[1]
                   ELSE <<>>
       IN here \o AllDeltas(Tail(events))

SeenIndices(events) ==
  { AllDeltas(events)[j].index : j \in 1..Len(AllDeltas(events)) }

\* The deltas of index i, in arrival order.
DeltasFor(events, i) ==
  LET HasIndex(d) == d.index = i
  IN SelectSeq(AllDeltas(events), HasIndex)

\* Position of index i among the seen indices in ascending order.
Rank(events, i) == Cardinality({ k \in SeenIndices(events) : k < i }) + 1

\* The text of an optional fragment: nothing when it is absent.
Fragment(o) == IF o = <<>> THEN "" ELSE o[1]

RECURSIVE ConcatNames(_)
ConcatNames(deltas) ==
  IF deltas = <<>> THEN ""
  ELSE (IF Head(deltas).function = <<>> THEN ""
        ELSE Fragment(Head(deltas).function[1].name))
       \o ConcatNames(Tail(deltas))

RECURSIVE ConcatArguments(_)
ConcatArguments(deltas) ==
  IF deltas = <<>> THEN ""
  ELSE (IF Head(deltas).function = <<>> THEN ""
        ELSE Fragment(Head(deltas).function[1].arguments))
       \o ConcatArguments(Tail(deltas))

StreamResolved == op = "stream" /\ pc = "resolved"

\* The number of tool calls in a response.
ToolCallCount(response) ==
  IF response.tool_calls = <<>> THEN 0 ELSE Len(response.tool_calls[1])

\* ------------------------------------------------------------------- claims
\* C1: the tool_calls of a streaming result are ordered by strictly ascending
\* delta index, whatever the order in which the indices first arrived: the
\* result has one entry per index seen, and the entry at position j is the
\* accumulated tool call of the j-th smallest index.
C1_AscendingIndexOrder ==
  StreamResolved =>
    /\ ToolCallCount(result[1]) = Cardinality(SeenIndices(consumed))
    /\ \A i \in SeenIndices(consumed) :
         \E j \in 1..Len(locals[1].toolCallsMap) :
           /\ locals[1].toolCallsMap[j].key = i
           /\ result[1].tool_calls[1][Rank(consumed, i)]
                = locals[1].toolCallsMap[j].value

\* C1 witness: a resolved stream in which a higher index arrived before a lower
\* one and the two tool calls differ.
C1_Witness ==
  /\ StreamResolved
  /\ Len(AllDeltas(consumed)) >= 2
  /\ AllDeltas(consumed)[1].index > AllDeltas(consumed)[2].index
  /\ ToolCallCount(result[1]) >= 2
  /\ result[1].tool_calls[1][1] # result[1].tool_calls[1][2]

\* C2: a streaming result holds exactly one ToolCall per distinct delta index
\* seen, and its function.name and function.arguments are the concatenation,
\* in arrival order, of the fragments of the deltas of that index only.
C2_FragmentsConcatenatedPerIndex ==
  StreamResolved =>
    /\ ToolCallCount(result[1]) = Cardinality(SeenIndices(consumed))
    /\ \A i \in SeenIndices(consumed) :
         LET tc == result[1].tool_calls[1][Rank(consumed, i)]
         IN /\ tc.function.name = ConcatNames(DeltasFor(consumed, i))
            /\ tc.function.arguments = ConcatArguments(DeltasFor(consumed, i))

\* C2 witness: two deltas of one index with a delta of another index between
\* them, each of the outer two bringing a non-empty name and arguments fragment.
C2_Witness ==
  /\ StreamResolved
  /\ Len(AllDeltas(consumed)) >= 3
  /\ LET d == AllDeltas(consumed)
     IN /\ d[1].index = d[3].index /\ d[2].index # d[1].index
        /\ d[1] # d[3]
        /\ \A j \in {1, 3} :
             /\ d[j].function # <<>>
             /\ d[j].function[1].name \notin {<<>>, <<"">>}
             /\ d[j].function[1].arguments \notin {<<>>, <<"">>}

\* C3: the id of the accumulated tool call of an index is the id of the first
\* delta seen for that index, the empty string if that delta has none, and its
\* type is "function"; this holds after every event and in the result.
C3_IdFixedByFirstDelta ==
  (op = "stream" /\ pc \in {"iterating", "resolved"}) =>
    \A i \in SeenIndices(consumed) :
      LET first == Head(DeltasFor(consumed, i))
          firstId == IF first.id = <<>> THEN "" ELSE first.id[1]
      IN /\ \E j \in 1..Len(locals[1].toolCallsMap) :
              /\ locals[1].toolCallsMap[j].key = i
              /\ locals[1].toolCallsMap[j].value.id = firstId
              /\ locals[1].toolCallsMap[j].value.type = "function"
         /\ pc = "resolved" =>
              /\ result[1].tool_calls[1][Rank(consumed, i)].id = firstId
              /\ result[1].tool_calls[1][Rank(consumed, i)].type = "function"

\* C3 witness: a resolved stream with an index whose first delta has no id and
\* a later delta has one, and an index whose later delta has a different id.
C3_Witness ==
  /\ StreamResolved
  /\ \E i \in SeenIndices(consumed) :
       LET ds == DeltasFor(consumed, i)
       IN Len(ds) >= 2 /\ ds[1].id = <<>> /\ ds[2].id # <<>>
  /\ \E i \in SeenIndices(consumed) :
       LET ds == DeltasFor(consumed, i)
       IN Len(ds) >= 2 /\ ds[1].id # <<>> /\ ds[2].id # <<>>
          /\ ds[2].id # ds[1].id

RECURSIVE LastUsage(_)
\* The usage block of the last event that carries one; zeros when none does.
LastUsage(events) ==
  IF events = <<>> THEN [prompt_tokens |-> 0, completion_tokens |-> 0,
                         total_tokens |-> 0]
  ELSE IF events[Len(events)].usage # <<>> THEN events[Len(events)].usage[1]
  ELSE LastUsage(SubSeq(events, 1, Len(events) - 1))

\* C4: the usage of a streaming result is the usage block of the last event
\* that carries one, whether or not that event has a choice, and all zeros if
\* no event carries one.
C4_UsageOfLastCarrier ==
  StreamResolved => result[1].usage = LastUsage(consumed)

\* C5: an event with an empty choice list raises no error and leaves the
\* content buffer, the reasoning buffer, the tool-call map, the finish reason,
\* the model name and the usage as they were.
C5_EmptyChoiceChangesNothing ==
  [][ (/\ op = "stream" /\ pc = "iterating"
       /\ Len(consumed') = Len(consumed) + 1
       /\ Len(consumed'[Len(consumed')].choices) = 0)
      => (/\ locals' = locals
          /\ pc' = "iterating"
          /\ thrown' = <<>> /\ rejection' = <<>> /\ result' = <<>>) ]_vars

\* C5 witness: an event without choice that carries a model and a usage block
\* has been consumed after content, a tool call and a usage block were
\* accumulated.
C5_Witness ==
  /\ op = "stream" /\ pc = "iterating"
  /\ Len(consumed) = 3
  /\ Len(consumed[3].choices) = 0
  /\ consumed[3].usage # <<>> /\ consumed[3].model # <<>>
  /\ Len(locals[1].toolCallsMap) > 0
  /\ locals[1].usage # LastUsage(consumed)
  /\ locals[1].usage # [prompt_tokens |-> 0, completion_tokens |-> 0,
                        total_tokens |-> 0]

\* s begins with prefix.
StartsWith(s, prefix) ==
  Len(s) >= Len(prefix) /\ SubSeq(s, 1, Len(prefix)) = prefix

\* C6: if an error is raised while createStreamingChatCompletion obtains or
\* iterates the event sequence, the call rejects with an ApiError whose
\* message starts with "DeepSeek Streaming API Error" and does not resolve
\* with a response built from the events already consumed.
C6_StreamErrorRejects ==
  (op = "stream" /\ thrown # <<>>) =>
    /\ pc = "rejected"
    /\ result = <<>>
    /\ rejection # <<>>
    /\ rejection[1].type = "object"
    /\ rejection[1].class \in {"ApiError", "RateLimitError", "AuthenticationError"}
    /\ StartsWith(rejection[1].message, "DeepSeek Streaming API Error")

\* C6 witness: the error came after events had been folded into content and a
\* tool call.
C6_Witness ==
  /\ op = "stream" /\ pc = "rejected"
  /\ Len(consumed) >= 2
  /\ locals[1].fullContent # ""
  /\ Len(locals[1].toolCallsMap) > 0

\* The context prefix of the method under way.
ContextOf(method) ==
  IF method = "stream" THEN "DeepSeek Streaming API Error"
  ELSE "DeepSeek API Error"

\* C7: an error thrown by the transport during createChatCompletion or
\* createStreamingChatCompletion reaches the caller as a failure whose message
\* is the operation context, ": " and the error's message, and whose cause is
\* the thrown error.
C7_TransportErrorWrapped ==
  (/\ thrown # <<>>
   /\ thrown[1].type = "object"
   /\ thrown[1].site = "transport") =>
    /\ pc = "rejected"
    /\ rejection # <<>>
    /\ rejection[1].message = ContextOf(op) \o ": " \o thrown[1].message
    /\ rejection[1].cause = <<thrown[1]>>

\* C7 witness: createChatCompletion rejected with the wrapper of an Error the
\* transport threw.
C7_Witness ==
  /\ op = "chat" /\ pc = "rejected"
  /\ thrown # <<>> /\ thrown[1].type = "object" /\ thrown[1].site = "transport"
  /\ rejection[1].site = "wrapError"

\* C8: every rejection of createChatCompletion and of
\* createStreamingChatCompletion is an ApiError or a subclass, whatever was
\* thrown inside the call.
C8_RejectionsAreApiErrors ==
  (pc = "rejected" \/ rejection # <<>>) =>
    /\ rejection # <<>>
    /\ rejection[1].type = "object"
    /\ rejection[1].class \in {"ApiError", "RateLimitError", "AuthenticationError"}

\* C8 witness: a value that is not an Error was thrown inside the call.
C8_Witness ==
  /\ pc = "rejected" /\ op = "stream"
  /\ thrown # <<>> /\ thrown[1].type = "other"

\* C9: when the upstream non-streaming response has an empty choice list,
\* createChatCompletion rejects with the ApiError "No response from DeepSeek
\* API" raised inside the call, the same object and not a wrapper of it, and
\* returns no response.
C9_EmptyChoicesRejected ==
  (/\ op = "chat" /\ rawResponse # <<>>
   /\ Len(rawResponse[1].choices) = 0) =>
    /\ pc = "rejected"
    /\ result = <<>>
    /\ thrown # <<>> /\ rejection = thrown
    /\ rejection[1].class = "ApiError"
    /\ rejection[1].site = "createChatCompletion"
    /\ rejection[1].message = "No response from DeepSeek API"
    /\ rejection[1].cause = <<>>

\* C9 witness: an upstream response without choices, but with a usage block.
C9_Witness ==
  /\ op = "chat" /\ pc = "rejected" /\ rawResponse # <<>>
  /\ Len(rawResponse[1].choices) = 0
  /\ rawResponse[1].usage # <<>>

\* C10: testConnection always resolves to a boolean and never rejects; it
\* resolves to true exactly when the transport resolved its probe with a
\* response whose first choice has a non-empty content string, and to false
\* after a transport failure, an empty choice list, or empty or null content.
C10_TestConnectionBoolean ==
  tcPc = "done" =>
    /\ tcOutcome # <<>>
    /\ tcOutcome[1].state = "resolved"
    /\ tcOutcome[1].value \in BOOLEAN
    /\ tcOutcome[1].value =
         (/\ rawResponse # <<>>
          /\ Len(rawResponse[1].choices) > 0
          /\ rawResponse[1].choices[1].message.content \notin {<<>>, <<"">>})
    /\ tcOutcome[1].value = (pc = "resolved" /\ result[1].content # "")

\* C10 witness: the probe failed in the transport and testConnection returned
\* false.
C10_Witness ==
  /\ tcPc = "done" /\ pc = "rejected"
  /\ thrown # <<>> /\ thrown[1].type = "object" /\ thrown[1].site = "transport"
  /\ tcOutcome[1] = [state |-> "resolved", value |-> FALSE]

\* C11: the request buildRequestParams produces carries a tools field exactly
\* when params.tools is a non-empty list (absent and empty are both left out),
\* and then it is that list; it carries a tool_choice field exactly when
\* params.tool_choice is not undefined, and then it is that value, whether or
\* not tools is sent.
C11_ToolsAndToolChoiceFields ==
  \A j \in 1..Len(requests) :
    LET p == params[1]
        request == requests[j]
        nonEmptyTools == IsDefined(p.tools) /\ Len(p.tools[1]) > 0
    IN /\ IsDefined(request.tools) <=> nonEmptyTools
       /\ nonEmptyTools => request.tools = p.tools
       /\ IsDefined(request.tool_choice) <=> IsDefined(p.tool_choice)
       /\ request.tool_choice = p.tool_choice

\* An empty tools list with a tool_choice: tools is left out, tool_choice sent.
C11_Witness ==
  /\ Len(requests) = 1
  /\ params[1].tools = Some(<<>>)
  /\ params[1].tool_choice = Some("auto")
  /\ requests[1].tools = Undefined
  /\ requests[1].tool_choice = Some("auto")

ChatResolved == op = "chat" /\ pc = "resolved"

\* Some event of the sequence carries a usage block.
CarriesUsage(events) == \E j \in 1..Len(events) : IsDefined(events[j].usage)

\* C12: when the upstream payload carries a usage block, the total_tokens of
\* the result is the upstream total_tokens as sent (not prompt_tokens +
\* completion_tokens), for a non-streaming response and for a stream alike;
\* a non-streaming response without usage block is reported with three zeros.
C12_TotalTokensPassedThrough ==
  /\ ChatResolved =>
       LET upstream == rawResponse[1].usage
       IN IF IsDefined(upstream)
          THEN result[1].usage.total_tokens = upstream[1].total_tokens
          ELSE result[1].usage = ZeroUsage
  /\ StreamResolved /\ CarriesUsage(consumed) =>
       result[1].usage.total_tokens = LastUsage(consumed).total_tokens

\* The tool calls of the first choice of a raw response, as a list.
UpstreamToolCalls(raw) ==
  LET tool_calls == raw.choices[1].message.tool_calls
  IN IF IsDefined(tool_calls) THEN tool_calls[1] ELSE <<>>

\* C13: the tool_calls of a createChatCompletion result are the first choice's
\* upstream tool calls one to one and in the same order: entry j has type
\* "function" whatever the upstream type is, and the id, function.name and
\* function.arguments of upstream entry j.
C13_ToolCallsMappedInOrder ==
  ChatResolved =>
    LET upstream == UpstreamToolCalls(rawResponse[1])
    IN /\ ToolCallCount(result[1]) = Len(upstream)
       /\ \A j \in 1..Len(upstream) :
            LET mapped == result[1].tool_calls[1][j]
            IN /\ mapped.type = "function"
               /\ mapped.id = upstream[j].id
               /\ mapped.function.name = upstream[j].function.name
               /\ mapped.function.arguments = upstream[j].function.arguments

\* A resolved call whose two upstream tool calls differ, the first of them of
\* a type other than "function".
C13_Witness ==
  /\ ChatResolved
  /\ Len(UpstreamToolCalls(rawResponse[1])) = 2
  /\ UpstreamToolCalls(rawResponse[1])[1].type # "function"
  /\ UpstreamToolCalls(rawResponse[1])[1].id # UpstreamToolCalls(rawResponse[1])[2].id
  /\ result[1].tool_calls[1][1].type = "function"

RECURSIVE ConcatContent(_)
\* The content deltas of the events, concatenated in arrival order.
ConcatContent(events) ==
  IF events = <<>> THEN ""
  ELSE (IF Len(Head(events).choices) = 0 THEN ""
        ELSE Fragment(Head(events).choices[1].delta.content))
       \o ConcatContent(Tail(events))

RECURSIVE ConcatReasoning(_)
\* The reasoning deltas of the events, concatenated in arrival order.
ConcatReasoning(events) ==
  IF events = <<>> THEN ""
  ELSE (IF Len(Head(events).choices) = 0 THEN ""
        ELSE Fragment(Head(events).choices[1].delta.reasoning_content))
       \o ConcatReasoning(Tail(events))

\* C14: the content of a streaming result is the concatenation, in arrival
\* order, of the content deltas of all events (the empty string when there is
\* none); its reasoning_content is the concatenation of the reasoning deltas
\* when that is not empty, and undefined otherwise.
C14_ContentAndReasoningConcatenated ==
  StreamResolved =>
    /\ result[1].content = ConcatContent(consumed)
    /\ result[1].reasoning_content =
         IF ConcatReasoning(consumed) # ""
         THEN Some(ConcatReasoning(consumed)) ELSE Undefined

\* A resolved stream of two content and two reasoning fragments, with an event
\* of empty fragments between them.
C14_Witness ==
  /\ StreamResolved
  /\ Len(consumed) = 3
  /\ consumed[2].choices # <<>>
  /\ consumed[2].choices[1].delta.content = Some("")
  /\ result[1].content = "Hello world"
  /\ result[1].reasoning_content = Some("I think")

\* The finish reason an event carries: of its first choice, when it is neither
\* absent nor empty.
FinishReasonOf(chunk) ==
  IF Len(chunk.choices) > 0 /\ Truthy(chunk.choices[1].finish_reason)
  THEN chunk.choices[1].finish_reason ELSE Undefined

RECURSIVE LastFinishReason(_)
\* The finish reason of the last event that carries one; "stop" when none does.
LastFinishReason(events) ==
  IF events = <<>> THEN "stop"
  ELSE IF IsDefined(FinishReasonOf(events[Len(events)]))
  THEN FinishReasonOf(events[Len(events)])[1]
  ELSE LastFinishReason(SubSeq(events, 1, Len(events) - 1))

\* C15: the finish_reason of a streaming result is the finish reason of the
\* last event that carries a non-null, non-empty one, so that a later event
\* with a null or empty finish reason does not overwrite it; it is "stop" when
\* no event carries one.
C15_LastFinishReasonWins ==
  StreamResolved => result[1].finish_reason = LastFinishReason(consumed)

\* A resolved stream in which an event with a finish reason is followed by
\* an event with an empty one and an event with none.
C15_Witness ==
  /\ StreamResolved
  /\ Len(consumed) = 3
  /\ FinishReasonOf(consumed[1]) = Some("length")
  /\ consumed[2].choices # <<>>
  /\ consumed[2].choices[1].finish_reason = Some("")
  /\ consumed[3].choices # <<>>
  /\ consumed[3].choices[1].finish_reason = Undefined
  /\ result[1].finish_reason = "length"

\* The model name an event provides, when it is neither absent nor empty.
ModelOf(chunk) == IF Truthy(chunk.model) THEN chunk.model ELSE Undefined

RECURSIVE LastModel(_, _)
\* The model name of the last event that provides one; `requested` when none
\* does.
LastModel(events, requested) ==
  IF events = <<>> THEN requested
  ELSE IF IsDefined(ModelOf(events[Len(events)]))
  THEN ModelOf(events[Len(events)])[1]
  ELSE LastModel(SubSeq(events, 1, Len(events) - 1), requested)

\* C16: the model of a streaming result is the model name of the last event
\* of the sequence that provides one, and the requested params.model when no
\* event provides one.
C16_ModelOfLastProvider ==
  StreamResolved => result[1].model = LastModel(consumed, params[1].model)

RECURSIVE FoldAll(_, _)
\* The locals after the loop has run over the events, one after the other.
FoldAll(l, events) ==
  IF events = <<>> THEN l
  ELSE FoldAll(foldChunk(l, Head(events)), Tail(events))

\* How a call settles when it is the only call of the client: the outcome of
\* its method on the params, events, response or error the call was given.
AloneOutcome(call) ==
  IF call.thrown # Undefined
  THEN [pc |-> "rejected", result |-> Undefined,
        rejection |-> Some(wrapError(call.thrown[1],
                                     IF call.op = "stream" THEN StreamContext
                                     ELSE ChatContext))]
  ELSE IF call.op = "stream"
  THEN [pc |-> "resolved",
        result |-> Some(streamResponse(FoldAll(InitialLocals(call.params[1]),
                                               call.consumed))),
        rejection |-> Undefined]
  ELSE [pc |-> "resolved",
        result |-> Some(reduceResponse(call.rawResponse[1]).value),
        rejection |-> Undefined]

Settled(call) == call.pc \in {"resolved", "rejected"}

\* C17: whatever the interleaving of the calls running on one client, each
\* call settles as it does when it runs alone on the same params and the same
\* upstream events, response or error: nothing another call did shows in it.
C17_CallsAreIsolated ==
  \A c \in 1..MaxCalls :
    Settled(calls[c]) =>
      /\ calls[c].pc = AloneOutcome(calls[c]).pc
      /\ calls[c].result = AloneOutcome(calls[c]).result
      /\ calls[c].rejection = AloneOutcome(calls[c]).rejection

\* Two streams of one client, over different events and for different models,
\* have both resolved, each with its own content and model.
C17_Witness ==
  /\ calls[1].op = "stream" /\ calls[1].pc = "resolved"
  /\ calls[2].op = "stream" /\ calls[2].pc = "resolved"
  /\ calls[1].params # calls[2].params
  /\ Len(calls[1].consumed) = MaxConcurrentChunks
  /\ Len(calls[2].consumed) = MaxConcurrentChunks
  /\ calls[1].result[1].content # calls[2].result[1].content
  /\ calls[1].result[1].model # calls[2].result[1].model

ToolDone == hPc = "done"

\* Some message of the invocation is longer than the configured limit.
Overlong(cfg, i) ==
  \E j \in 1..Len(i.messages) : Len(i.messages[j].content) > cfg.maxMessageLength

\* The message of the failure of the finished invocation, if it failed: of the
\* length rejection, of the schema validation, or of the client's rejection.
FailureMessage ==
  IF Overlong(config, input[1])
  THEN Some(LengthMessage(config.maxMessageLength))
  ELSE IF ChatInputIssues(input[1]) # <<>>
  THEN Some(ZodError(ChatInputIssues(input[1])).message)
  ELSE IF pc = "rejected" THEN Some(rejection[1].message)
  ELSE Undefined

\* C18: the deepseek_chat handler never throws.  A finished invocation has
\* returned a result; when it failed (length rejection, schema validation,
\* client or transport error) the result has isError true, exactly one text
\* item "Error: " followed by the failure message, and no structuredContent;
\* when it succeeded, isError is not set.
C18_HandlerReturnsErrorResults ==
  ToolDone =>
    /\ toolOutcome[1].state = "returned"
    /\ IF IsDefined(FailureMessage)
       THEN /\ toolOutcome[1].value.isError = Some(TRUE)
            /\ toolOutcome[1].value.content
                 = <<TextItem("Error: " \o FailureMessage[1])>>
            /\ toolOutcome[1].value.structuredContent = Undefined
       ELSE /\ pc = "resolved"
            /\ toolOutcome[1].value.isError = Undefined

\* An invocation whose stream broke after it had yielded chunks has returned
\* its error result.
C18_Witness ==
  /\ ToolDone
  /\ op = "stream" /\ pc = "rejected" /\ Len(consumed) > 0
  /\ toolOutcome[1].state = "returned"
  /\ toolOutcome[1].value.isError = Some(TRUE)
  /\ toolOutcome[1].value.content[1].text
       = "Error: DeepSeek Streaming API Error: Stream connection lost"

\* C19: an invocation with a message longer than the configured
\* maxMessageLength returns the error result that names the limit, whatever
\* else is wrong with the input, and no request is handed to the transport for
\* it; an invocation whose longest message has exactly maxMessageLength
\* characters is not rejected for its length.
C19_LengthCheckedFirst ==
  IsDefined(input) =>
    IF Overlong(config, input[1])
    THEN /\ ToolDone
         /\ requests = <<>> /\ op = "none"
         /\ toolOutcome[1].state = "returned"
         /\ toolOutcome[1].value.isError = Some(TRUE)
         /\ toolOutcome[1].value.content
              = <<TextItem("Error: " \o LengthMessage(config.maxMessageLength))>>
    ELSE ToolDone /\ toolOutcome[1].state = "returned" =>
           toolOutcome[1].value.content
             # <<TextItem("Error: " \o LengthMessage(config.maxMessageLength))>>

\* A rejected invocation whose overlong message also has a role the schema
\* does not know.
C19_Witness ==
  /\ ToolDone
  /\ Overlong(config, input[1])
  /\ ChatInputIssues(input[1]) # <<>>
  /\ requests = <<>>
  /\ toolOutcome[1].value.content[1].text
       = "Error: Message content exceeds maximum length of "
           \o ToString(SmallMessageLength) \o " characters"

\* A message with role tool and without tool_call_id.
LacksToolCallId(message) ==
  message.role = "tool" /\ message.tool_call_id = Undefined

\* C20: an invocation with a message of role tool that has no tool_call_id is
\* rejected by the validation, and no request is handed to the transport.
C20_ToolMessageNeedsToolCallId ==
  IsDefined(input)
    /\ (\E j \in 1..Len(input[1].messages) : LacksToolCallId(input[1].messages[j]))
  => /\ requests = <<>>
     /\ ToolDone
     /\ toolOutcome[1].value.isError = Some(TRUE)

\* The last call of the config module was `name`.
LastConfigCall(name) ==
  IsDefined(configOutcome) /\ configOutcome[1].op = name

\* C21: over any sequence of loadConfig, getConfig and resetConfig calls,
\* getConfig throws "Config not loaded" whenever no loadConfig has succeeded
\* since the start or since the last resetConfig; otherwise it returns the very
\* object the most recent successful loadConfig returned; and it leaves the
\* cache as it found it.
C21_ConfigCacheTwoStates ==
  LastConfigCall("getConfig") =>
    /\ IF lastLoaded = Undefined
       THEN /\ configOutcome[1].threw
            /\ HasPrefix(configOutcome[1].value.message, "Config not loaded")
       ELSE /\ ~configOutcome[1].threw
            /\ configOutcome[1].value = lastLoaded[1]
    /\ cachedConfig = configOutcome[1].cacheBefore

\* getConfig has returned the object of the second successful load, made
\* after a reset, in an environment other than that of the first.
C21_Witness ==
  /\ LastConfigCall("getConfig")
  /\ ~configOutcome[1].threw
  /\ configOutcome[1].value.id = 3
  /\ configOutcome[1].value.baseUrl # DefaultBaseUrl
  /\ cachedConfig = lastLoaded

PureDone(fn) ==
  IsDefined(pureOutcome) /\ pureCall[1].fn = fn

\* C23: for all token counts p and c and every model string that is not a key
\* of the pricing table, calculateCost(p, c, model) is what
\* calculateCost(p, c, "deepseek-chat") is, and calculateCost(0, 0, m) is
\* exactly 0 for every m.
C23_UnknownModelPricedAsChat ==
  PureDone("calculateCost") =>
    /\ pureCall[1].model \notin {"deepseek-chat", "deepseek-reasoner"} =>
         pureOutcome[1] = calculateCost(pureCall[1].promptTokens,
                                        pureCall[1].completionTokens,
                                        "deepseek-chat")
    /\ pureCall[1].promptTokens = 0 /\ pureCall[1].completionTokens = 0 =>
         pureOutcome[1] = Some(0)

\* The options of the constructor call made, property by property.
GivenOption(property) == OptionOf(pureCall[1].options, property)

\* C24: whatever options are passed, a RateLimitError has statusCode 429 and
\* is retryable, an AuthenticationError has statusCode 401 and is not; an
\* ApiError is not retryable and has no statusCode unless the options give
\* them; a ConnectionError is retryable unless the options say otherwise; and
\* each keeps the cause it was given and is named after its class.
C24_ErrorConstructorsFixFlags ==
  PureDone("new") =>
    LET e == pureOutcome[1]
        class == pureCall[1].class
    IN /\ class = "RateLimitError" =>
            e.statusCode = Some(StatusTooManyRequests) /\ e.retryable = TRUE
       /\ class = "AuthenticationError" =>
            e.statusCode = Some(StatusUnauthorized) /\ e.retryable = FALSE
       /\ class = "ApiError" =>
            /\ e.statusCode = GivenOption("statusCode")
            /\ e.retryable = (GivenOption("retryable") = Some(TRUE))
       /\ class = "ConnectionError" =>
            e.retryable = (GivenOption("retryable") # Some(FALSE))
       /\ e.cause = GivenOption("cause")
       /\ e.name = class
       /\ e.message = pureCall[1].message

\* A RateLimitError has been built from options that ask for another status
\* code and for no retry, and that carry a cause.
C24_Witness ==
  /\ PureDone("new")
  /\ pureCall[1].class = "RateLimitError"
  /\ GivenOption("statusCode") = Some(500)
  /\ GivenOption("retryable") = Some(FALSE)
  /\ IsDefined(GivenOption("cause"))
  /\ pureOutcome[1].statusCode = Some(StatusTooManyRequests)

\* C29: whatever is not an ApiError already, wrapError turns into a plain
\* ApiError that is not retryable and has no statusCode, whatever failure of
\* the transport it stands for; its message is the context, ": ", and the
\* thrown Error's message, the thrown string, or "Unknown error"; it has a
\* cause only when the thrown value is an Error, and that value is the cause.
C29_WrappedErrorsArePlain ==
  PureDone("wrapError") /\ ~IsApiError(pureCall[1].error) =>
    LET e == pureOutcome[1]
        thrownValue == pureCall[1].error
    IN /\ e.class = "ApiError"
       /\ e.retryable = FALSE
       /\ e.statusCode = Undefined
       /\ e.message =
            pureCall[1].context \o ": "
              \o (IF thrownValue.type = "object" THEN thrownValue.message
                  ELSE IF thrownValue.type = "string" THEN thrownValue.value
                  ELSE "Unknown error")
       /\ e.cause = IF thrownValue.type = "object" THEN Some(thrownValue)
                    ELSE Undefined

\* The transport's error for a rate limit has been wrapped.
C29_Witness ==
  /\ PureDone("wrapError")
  /\ pureCall[1].error.type = "object"
  /\ pureCall[1].error.class = "OpenAI.RateLimitError"
  /\ pureOutcome[1].class = "ApiError"
  /\ pureOutcome[1].cause = Some(pureCall[1].error)

\* C25: in every response of createChatCompletion and of
\* createStreamingChatCompletion, tool_calls is undefined or a list that is
\* not empty: an upstream list without entries, a stream without tool-call
\* deltas and a stream whose tool_calls deltas are all empty lists yield
\* undefined.
C25_ToolCallsUndefinedOrNonEmpty ==
  /\ StreamResolved \/ ChatResolved =>
       result[1].tool_calls = Undefined \/ Len(result[1].tool_calls[1]) > 0
  /\ StreamResolved /\ AllDeltas(consumed) = <<>> =>
       result[1].tool_calls = Undefined
  /\ ChatResolved /\ UpstreamToolCalls(rawResponse[1]) = <<>> =>
       result[1].tool_calls = Undefined

\* A stream has resolved in which a chunk carried a tool_calls delta, and
\* every such delta was an empty list.
C25_Witness ==
  /\ StreamResolved
  /\ \E j \in 1..Len(consumed) :
       /\ Len(consumed[j].choices) > 0
       /\ consumed[j].choices[1].delta.tool_calls = Some(<<>>)
  /\ AllDeltas(consumed) = <<>>
  /\ result[1].tool_calls = Undefined

\* C26: a client call hands exactly one request to the transport, whether it
\* succeeds or fails, with stream false from createChatCompletion and stream
\* true from createStreamingChatCompletion; and an invocation of deepseek_chat
\* with valid input makes exactly one client call, the streaming one iff the
\* validated stream is true.
C26_OneRequestPerCall ==
  /\ pc # "idle" =>
       /\ Len(requests) = 1
       /\ requests[1].stream = (op = "stream")
  /\ hPc # "idle" =>
       LET v == validateInput(config, input[1])
       IN IF v.threw THEN requests = <<>> /\ op = "none"
          ELSE /\ Len(requests) = 1
               /\ op = IF v.value.stream THEN "stream" ELSE "chat"

\* An invocation without `stream` has returned the error of a transport that
\* failed, after one request with stream false.
C26_Witness ==
  /\ ToolDone
  /\ input[1].stream = Undefined
  /\ op = "chat" /\ pc = "rejected"
  /\ thrown[1] \in TransportThrows
  /\ Len(requests) = 1
  /\ requests[1].stream = FALSE

\* C27: createChatCompletion returns content "" when the content of the first
\* choice's message is null, absent or empty, and that content otherwise;
\* finish_reason "stop" when the choice has none; the message's
\* reasoning_content when it is a string and undefined otherwise; and nothing
\* of it depends on a choice after the first.
C27_ChatDefaults ==
  ChatResolved =>
    LET first == rawResponse[1].choices[1]
        r == result[1]
    IN /\ r.content = IF first.message.content \in {Undefined, Some("")}
                      THEN "" ELSE first.message.content[1]
       /\ r.finish_reason = IF first.finish_reason = Undefined
                            THEN "stop" ELSE first.finish_reason[1]
       /\ r.reasoning_content = first.message.reasoning_content
       /\ r.tool_calls = Undefined \/
            Len(r.tool_calls[1]) = Len(first.message.tool_calls[1])

\* A response of two choices has resolved, the first without content, finish
\* reason, reasoning or tool calls, the second with all of them.
C27_Witness ==
  /\ ChatResolved
  /\ Len(rawResponse[1].choices) = 2
  /\ rawResponse[1].choices[1].message.content = Undefined
  /\ rawResponse[1].choices[2].message.content = Some("Second")
  /\ result[1].content = ""
  /\ result[1].finish_reason = "stop"
  /\ result[1].reasoning_content = Undefined
  /\ result[1].tool_calls = Undefined

\* The request built carries the temperature of the params when they have one,
\* zero included, and 1.0 only when they have none, and the seven fields
\* copied from the params.
RequestFollowsParams ==
  \A j \in 1..Len(requests) :
    LET p == params[1]
        request == requests[j]
    IN /\ request.temperature = IF p.temperature = Undefined
                                THEN Some(DefaultTemperature) ELSE p.temperature
       /\ request.model = p.model
       /\ request.messages = p.messages
       /\ request.max_tokens = p.max_tokens
       /\ request.top_p = p.top_p
       /\ request.frequency_penalty = p.frequency_penalty
       /\ request.presence_penalty = p.presence_penalty
       /\ request.stop = p.stop

\* C28: the request's temperature is params.temperature whenever it is
\* provided, 0 included, and 1.0 only when it is absent; model, messages,
\* max_tokens, top_p, frequency_penalty, presence_penalty and stop are copied
\* unchanged; and buildRequestParams leaves params as it found it.
C28_TemperatureAndCopiedFields ==
  []RequestFollowsParams /\ [][params' = params]_vars

\* A request has been built from params with temperature 0 and with top_p,
\* the penalties and stop set.
C28_Witness ==
  /\ Len(requests) = 1
  /\ params[1].temperature = Some(0)
  /\ requests[1].temperature = Some(0)
  /\ IsDefined(params[1].top_p) /\ IsDefined(params[1].stop)
  /\ requests[1].stop = params[1].stop

\* sub occurs in s.
Contains(s, sub) ==
  \E j \in 1..(Len(s) - Len(sub) + 1) : SubSeq(s, j, j + Len(sub) - 1) = sub

\* What follows the first n characters of s.
After(s, n) == SubSeq(s, n + 1, Len(s))

\* C30: the result of a successful deepseek_chat invocation carries as
\* structuredContent the client's response plus cost_usd, computed from the
\* response's own prompt_tokens and completion_tokens and the upstream model,
\* whether or not showCostInfo is set; its text has the "Request Information"
\* block iff showCostInfo is true, begins with the <thinking> block (only when
\* reasoning_content is non-empty) followed by the content, and has the
\* "Function Calls" section (only when tool_calls is non-empty) right after
\* the content.
C30_SuccessResult ==
  ToolDone /\ pc = "resolved" =>
    LET r == result[1]
        out == toolOutcome[1].value
        text == out.content[1].text
        thinking == IF r.reasoning_content \notin {Undefined, Some("")}
                    THEN "<thinking>\n" \o r.reasoning_content[1]
                           \o "\n</thinking>\n\n"
                    ELSE ""
        head == thinking \o r.content
        rest == After(text, Len(head))
    IN /\ toolOutcome[1].state = "returned"
       /\ out.isError = Undefined
       /\ IsDefined(out.structuredContent)
       /\ [f \in DOMAIN r |-> out.structuredContent[1][f]] = r
       /\ DOMAIN out.structuredContent[1] = DOMAIN r \cup {"cost_usd"}
       /\ out.structuredContent[1].cost_usd =
            LET price == IF r.model = "deepseek-reasoner"
                         THEN PRICING.reasoner ELSE PRICING.chat
            IN Some(RoundDiv(r.usage.prompt_tokens * price.prompt[1]
                               + r.usage.completion_tokens * price.completion[1],
                             100))
       /\ StartsWith(text, head)
       /\ Contains(text, "<thinking>") <=> thinking # ""
       /\ IF IsDefined(r.tool_calls)
          THEN StartsWith(rest, "\n\n**Function Calls:**\n")
          ELSE ~Contains(text, "**Function Calls:**")
       /\ Contains(rest, "\n---\n**Request Information:**\n")
            <=> config.showCostInfo

\* An invocation that asked for no model has returned, while showCostInfo is
\* off, a response with reasoning that the upstream attributes to
\* deepseek-reasoner, priced as such.
C30_Witness ==
  /\ ToolDone /\ pc = "resolved"
  /\ ~config.showCostInfo
  /\ input[1].model = Undefined
  /\ result[1].model = "deepseek-reasoner"
  /\ Truthy(result[1].reasoning_content)
  /\ toolOutcome[1].value.structuredContent[1].cost_usd = Some(1645)
====
